---- MODULE Spec2Model ----
(***************************************************************************)
(* Document ingestion and asynchronous scan pipeline.                      *)
(*                                                                         *)
(*   SpecJobs  the Job Coordinator (app/services/redis_client.py): scan    *)
(*             job records with a time-to-live, under concurrent callers   *)
(*             and key expiry.                                             *)
(*   SpecStore scan job and upload session records in one store, kept by   *)
(*             a scan worker and an upload handler, under key expiry.      *)
(*   SpecTtl   the same records ageing in steps that can leave them below  *)
(*             the floor of 60 seconds.                                    *)
(*   SpecQueue the scan_queue list under concurrent creators and workers.  *)
(*   SpecDocs  the Upload Orchestrator (app/services/document_service.py)  *)
(*             over the metadata store, the object store, the upload       *)
(*             sessions and the event publisher.                           *)
(*   SpecUpload uploads of every payload, with and without a session.      *)
(*   SpecScan  the Scan Protocol Client and scan_bytes                     *)
(*             (app/services/virus_scanner.py) over the Job Coordinator.   *)
(*   SpecClient the protocol client one await at a time: framing,          *)
(*             connections, deadlines; SpecClientLive adds the event       *)
(*             loop's fairness.                                            *)
(*   SpecRoute the scan request (app/api/rest_routes.py scan_document)     *)
(*             over get_document, the object store and scan_bytes.         *)
(*   SpecUpdate update_document while the publisher's connection comes     *)
(*             and goes.                                                   *)
(*   SpecRace  delete_document and update_document of two callers on one   *)
(*             document, one session statement at a time.                  *)
(*   SpecPublisher the Event Publisher (app/services/event_publisher.py):  *)
(*             connect, the connection library's callbacks, publish_event. *)
(*   SpecTenants the DocumentService called from two tenants.              *)
(*   SpecGateway the Storage Gateway (app/storage/s3_backend.py) over the  *)
(*             outcomes of the S3 API.                                     *)
(*   SpecLimiter rate_limit_check over one key as time passes.             *)
(***************************************************************************)
EXTENDS Integers, Sequences, FiniteSets, Bags, TLC

\* ------------------------------------------------------------------------
\* Bounds and program constants
\* ------------------------------------------------------------------------

\* Number of scan ids a behaviour may push on scan_queue.
MaxCreates == 2
\* Number of DocumentService calls a behaviour may make.
MaxCalls == 3

\* redis_client.py:174  ttl_minutes: int = 30
ScanJobTtlMinutes == 30
\* redis_client.py:65   ttl_minutes: int = 60
UploadSessionTtlMinutes == 60
\* redis_client.py:139 and :254   max(ttl, 60)
MinTtlSeconds == 60

\* chunk_size of the zINSTREAM frames
ChunkSize == 8192

\* payloads of up to MaxChunks full frames and one byte more
MaxChunks == 2

\* Concurrent callers of the coordinator (request handlers, scan workers).
Workers == {"w1", "w2"}
\* Scan job ids and upload session ids the callers use.
ScanIds == {"a", "b"}
SessionIds == {"u"}

\* models/document.py ScanStatus
ScanStatuses == {"pending", "scanning", "completed", "failed"}
TerminalStatuses == {"completed", "failed"}
\* status values callers write to an upload session
SessionStatuses == {"pending", "completed"}
\* Python's None
None == "None"

\* The time one Tick lets pass: half the life of a scan job record.
TickSeconds == (ScanJobTtlMinutes * 60) \div 2

VARIABLES
    scan_job,        \* live keys scan_job:{id}       -> [status, ttl]
    upload_session,  \* live keys upload_session:{id} -> [status, ttl]
    scan_queue,      \* the list scan_queue of scan ids, head first
    task,            \* per caller: the coordinator call it is inside
    ret,             \* per caller: what its last finished call returned
    pushLog,         \* history: the ids pushed, in the order of their lpush
    popLog           \* history: the ids brpop delivered, in order

jobVars == <<scan_job, upload_session, scan_queue, task, ret, pushLog, popLog>>

VARIABLES
    documents,          \* table documents: id -> row
    storage_locations,  \* table storage_locations: set of rows
    versions,           \* table document_versions: set of rows
    audit_logs,         \* table audit_logs: bag of rows
    storage_objects,    \* object store: key -> the bytes stored under it
    events,             \* events the broker accepted: bag of [type, doc]
    call,               \* per caller: the DocumentService call it is inside
    res,                \* per caller: outcome of its last finished call
    now                 \* number of DocumentService calls begun so far

docVars == <<documents, storage_locations, versions, audit_logs, storage_objects,
             events, call, res, now>>

VARIABLES
    enabled,   \* settings.VIRUS_SCAN_ENABLED
    scan,      \* per worker: the scan_bytes call it is inside
    scanned    \* per worker: the ScanResult its last scan_bytes returned

scanVars == <<enabled, scan, scanned>>

VARIABLES
    route,         \* per caller: the scan_document request it is inside, and its answer
    client,        \* the protocol client: one call to the scanner daemon, step by step
    scan_results   \* metadata store: the scan_results rows with their threat_details

apiVars == <<route>>

clientVars == <<client>>

resultVars == <<scan_results>>

VARIABLES
    publisher,   \* the EventPublisher object: connection, channel, connected
    published    \* history: what each publish_event call was given and returned

publisherVars == <<publisher, published>>

VARIABLES
    bucket,   \* the S3 bucket behind the storage backend: the keys it holds
    s3        \* the last S3StorageBackend call: what the backend did, what the caller got

gatewayVars == <<bucket, s3>>

VARIABLES
    rate_limit,   \* the sorted set rate_limit:{key}: member -> score
    rate_clock,   \* datetime.utcnow() of the rate limiter, in ticks
    rate_log      \* history: the time and the answer of each rate_limit_check

limitVars == <<rate_limit, rate_clock, rate_log>>

otherVars == <<apiVars, clientVars, resultVars, publisherVars, gatewayVars, limitVars>>

vars == <<jobVars, docVars, scanVars, apiVars, clientVars, resultVars, publisherVars,
          gatewayVars, limitVars>>

\* The key rate_limit:{key} does not exist.
NoRateKey == [zset |-> <<>>, ttl |-> 0]

\* No S3StorageBackend call made yet.
NoS3Call == [op |-> None, key |-> None, error |-> [kind |-> "none", code |-> None],
             raised |-> None, returned |-> None]

\* ------------------------------------------------------------------------
\* Key/value helpers (Redis SETEX, DEL, TTL, key expiry)
\* ------------------------------------------------------------------------

Put(f, k, v) == [x \in (DOMAIN f) \cup {k} |-> IF x = k THEN v ELSE f[x]]

Remove(f, k) == [x \in (DOMAIN f) \ {k} |-> f[x]]

\* Redis TTL: remaining seconds, -2 when the key does not exist.
RedisTtl(f, k) == IF k \in DOMAIN f THEN f[k].ttl ELSE -2

\* d seconds pass: every key loses d seconds and is gone at zero.
Expire(f, d) ==
    [x \in {k \in DOMAIN f : f[k].ttl > d} |-> [f[x] EXCEPT !.ttl = @ - d]]

Max(a, b) == IF a >= b THEN a ELSE b

IdleTask == [pc |-> "idle", id |-> None, status |-> None, result |-> None,
             error_message |-> None, ttl |-> 0]

NoRet == [op |-> None, id |-> None, val |-> None, raised |-> FALSE, note |-> None]

\* The call returns val; note tells which path of the code returned it.
Return(w, op, id, val, note) ==
    /\ task' = [task EXCEPT ![w] = IdleTask]
    /\ ret' = [ret EXCEPT ![w] =
                 [op |-> op, id |-> id, val |-> val, raised |-> FALSE, note |-> note]]

jobHistory == <<pushLog, popLog>>

\* create_scan_job calls that have written their record and not yet pushed.
Creating == {w \in Workers : task[w].pc = "create_lpush"}

\* ------------------------------------------------------------------------
\* RedisClient.create_scan_job
\* ------------------------------------------------------------------------

\* setex(key, ttl_minutes, job_data) with status "pending"; an exception
\* returns False.
CreateScanJobSetex(w, id) ==
    /\ task[w].pc = "idle"
    /\ Len(pushLog) + Cardinality(Creating) < MaxCreates
    /\ \/ /\ scan_job' = Put(scan_job, id,
                             [status |-> "pending", result |-> None, error_message |-> None,
                              ttl |-> ScanJobTtlMinutes * 60])
          /\ task' = [task EXCEPT ![w] =
                        [IdleTask EXCEPT !.pc = "create_lpush", !.id = id]]
          /\ ret' = [ret EXCEPT ![w] = NoRet]
       \/ /\ Return(w, "create_scan_job", id, FALSE, "error")
          /\ UNCHANGED scan_job
    /\ UNCHANGED <<upload_session, scan_queue, pushLog, popLog, docVars>>

\* Redis LPUSH puts the value at the head of the list; BRPOP takes the tail.
Rpush(q, x) == Append(q, x)

Lpush(q, x) == <<x>> \o q

RpopValue(q) == q[Len(q)]

RpopRest(q) == SubSeq(q, 1, Len(q) - 1)

\* A caller blocked in brpop is served by the push itself.
Blocked == {w \in Workers : task[w].pc = "pop_wait"}

\* pop_scan_job's handling of what brpop gave: (key, scan_id) -> scan_id,
\* nil -> None, an exception -> None.
PopScanJobRaises(outcome) == [val |-> IF outcome.kind = "value" THEN outcome.id ELSE None,
                              raised |-> outcome.kind = "exception"]

PopScanJobResult(outcome) ==
    [val |-> IF outcome.kind = "value" THEN outcome.id ELSE None,
     raised |-> FALSE]

PopReturn(r, w, outcome) ==
    [r EXCEPT ![w] = [op |-> "pop_scan_job", id |-> None,
                      val |-> PopScanJobResult(outcome).val,
                      raised |-> PopScanJobResult(outcome).raised,
                      note |-> outcome.kind]]

\* lpush("scan_queue", scan_id); an exception returns False and leaves the
\* record written by the setex.
CreateScanJobLpush(w) ==
    /\ task[w].pc = "create_lpush"
    /\ \/ /\ pushLog' = Append(pushLog, task[w].id)
          /\ IF Blocked = {}
             THEN /\ scan_queue' = Lpush(scan_queue, task[w].id)
                  /\ Return(w, "create_scan_job", task[w].id, TRUE, "ok")
                  /\ UNCHANGED popLog
             ELSE \E b \in Blocked :
                  /\ popLog' = Append(popLog, task[w].id)
                  /\ task' = [task EXCEPT ![w] = IdleTask, ![b] = IdleTask]
                  /\ ret' = PopReturn([ret EXCEPT ![w] =
                                 [op |-> "create_scan_job", id |-> task[w].id,
                                  val |-> TRUE, raised |-> FALSE, note |-> "ok"]],
                               b, [kind |-> "value", id |-> task[w].id])
                  /\ UNCHANGED scan_queue
       \/ /\ Return(w, "create_scan_job", task[w].id, FALSE, "error")
          /\ UNCHANGED <<scan_queue, pushLog, popLog>>
    /\ UNCHANGED <<scan_job, upload_session, docVars>>

\* ------------------------------------------------------------------------
\* RedisClient.update_scan_job
\* ------------------------------------------------------------------------

\* The field updates of update_scan_job on the record it read: a field
\* whose argument is None is left as it is.
UpdateJobData(job_data, args) ==
    [job_data EXCEPT !.status = IF args.status /= None THEN args.status ELSE @,
                     !.result = IF args.result /= None THEN args.result ELSE @,
                     !.error_message = IF args.error_message /= None
                                       THEN args.error_message ELSE @]

\* The keyword arguments of one update_scan_job call.
Args(status, result, error_message) ==
    [status |-> status, result |-> result, error_message |-> error_message]

\* An update that wrote a record whether or not it had read one.
UpdateScanJobGetUpsert(w, id, args) ==
    /\ task[w].pc = "idle"
    /\ LET read == IF id \in DOMAIN scan_job THEN scan_job[id]
                   ELSE [status |-> "pending", result |-> None, error_message |-> None,
                         ttl |-> 0]
           data == UpdateJobData(read, args) IN
       task' = [task EXCEPT ![w] =
                  [IdleTask EXCEPT !.pc = "upd_ttl", !.id = id,
                                   !.status = data.status, !.result = data.result,
                                   !.error_message = data.error_message]]
    /\ ret' = [ret EXCEPT ![w] = NoRet]
    /\ UNCHANGED <<scan_job, upload_session, scan_queue, jobHistory, docVars>>

\* job_data = get_scan_job(scan_id); "if not job_data: return False".
\* get_scan_job returns None for a missing key and when the GET raises.
UpdateScanJobGet(w, id, args) ==
    /\ task[w].pc = "idle"
    /\ \/ /\ id \in DOMAIN scan_job
          /\ LET data == UpdateJobData(scan_job[id], args) IN
             task' = [task EXCEPT ![w] =
                        [IdleTask EXCEPT !.pc = "upd_ttl", !.id = id,
                                         !.status = data.status,
                                         !.result = data.result,
                                         !.error_message = data.error_message]]
          /\ ret' = [ret EXCEPT ![w] = NoRet]
       \/ /\ id \notin DOMAIN scan_job
          /\ Return(w, "update_scan_job", id, FALSE, "absent")
       \/ Return(w, "update_scan_job", id, FALSE, "error")
    /\ UNCHANGED <<scan_job, upload_session, scan_queue, jobHistory, docVars>>

\* ttl = redis.ttl(key); an exception returns False.
UpdateScanJobTtl(w) ==
    /\ task[w].pc = "upd_ttl"
    /\ \/ /\ task' = [task EXCEPT ![w].pc = "upd_setex",
                                  ![w].ttl = RedisTtl(scan_job, task[w].id)]
          /\ UNCHANGED ret
       \/ Return(w, "update_scan_job", task[w].id, FALSE, "error")
    /\ UNCHANGED <<scan_job, upload_session, scan_queue, jobHistory, docVars>>

\* An update that gives the record the full time-to-live of a new job.
UpdateScanJobSetexFullTtl(w) ==
    /\ task[w].pc = "upd_setex"
    /\ \/ /\ scan_job' = Put(scan_job, task[w].id,
                             [status |-> task[w].status, result |-> task[w].result,
                              error_message |-> task[w].error_message,
                              ttl |-> ScanJobTtlMinutes * 60])
          /\ Return(w, "update_scan_job", task[w].id, TRUE, "ok")
       \/ /\ Return(w, "update_scan_job", task[w].id, FALSE, "error")
          /\ UNCHANGED scan_job
    /\ UNCHANGED <<upload_session, scan_queue, jobHistory, docVars>>

\* setex(key, max(ttl, 60), job_data); an exception returns False.
UpdateScanJobSetex(w) ==
    /\ task[w].pc = "upd_setex"
    /\ \/ /\ scan_job' = Put(scan_job, task[w].id,
                             [status |-> task[w].status, result |-> task[w].result,
                              error_message |-> task[w].error_message,
                              ttl |-> Max(task[w].ttl, MinTtlSeconds)])
          /\ Return(w, "update_scan_job", task[w].id, TRUE, "ok")
       \/ /\ Return(w, "update_scan_job", task[w].id, FALSE, "error")
          /\ UNCHANGED scan_job
    /\ UNCHANGED <<upload_session, scan_queue, jobHistory, docVars>>

\* ------------------------------------------------------------------------
\* RedisClient.pop_scan_job
\* ------------------------------------------------------------------------

\* brpop("scan_queue", timeout): takes the tail of the list in one store
\* operation, or blocks when the list is empty; an exception returns None.
PopScanJobPeek(w) ==
    /\ task[w].pc = "idle"
    /\ scan_queue /= <<>>
    /\ popLog' = Append(popLog, RpopValue(scan_queue))
    /\ task' = [task EXCEPT ![w] = IdleTask]
    /\ ret' = PopReturn(ret, w, [kind |-> "value", id |-> RpopValue(scan_queue)])
    /\ UNCHANGED <<scan_queue, scan_job, upload_session, pushLog, docVars>>

PopScanJob(w) ==
    /\ task[w].pc = "idle"
    /\ \/ /\ scan_queue /= <<>>
          /\ scan_queue' = RpopRest(scan_queue)
          /\ popLog' = Append(popLog, RpopValue(scan_queue))
          /\ task' = [task EXCEPT ![w] = IdleTask]
          /\ ret' = PopReturn(ret, w, [kind |-> "value", id |-> RpopValue(scan_queue)])
       \/ /\ scan_queue = <<>>
          /\ task' = [task EXCEPT ![w] = [IdleTask EXCEPT !.pc = "pop_wait"]]
          /\ ret' = [ret EXCEPT ![w] = NoRet]
          /\ UNCHANGED <<scan_queue, popLog>>
       \/ /\ task' = [task EXCEPT ![w] = IdleTask]
          /\ ret' = PopReturn(ret, w, [kind |-> "exception", id |-> None])
          /\ UNCHANGED <<scan_queue, popLog>>
    /\ UNCHANGED <<scan_job, upload_session, pushLog, docVars>>

\* The timeout of a blocked brpop elapses (nil), or the connection fails
\* while it waits.
PopScanJobTimeout(w) ==
    /\ task[w].pc = "pop_wait"
    /\ task' = [task EXCEPT ![w] = IdleTask]
    /\ \E k \in {"nil", "exception"} :
          ret' = PopReturn(ret, w, [kind |-> k, id |-> None])
    /\ UNCHANGED <<scan_job, upload_session, scan_queue, jobHistory, docVars>>

\* ------------------------------------------------------------------------
\* Upload sessions
\* ------------------------------------------------------------------------

\* RedisClient.create_upload_session: one setex, status "pending".
CreateUploadSession(w, id) ==
    /\ task[w].pc = "idle"
    /\ \/ /\ upload_session' = Put(upload_session, id,
                 [status |-> "pending", ttl |-> UploadSessionTtlMinutes * 60])
          /\ Return(w, "create_upload_session", id, TRUE, "ok")
       \/ /\ Return(w, "create_upload_session", id, FALSE, "error")
          /\ UNCHANGED upload_session
    /\ UNCHANGED <<scan_job, scan_queue, jobHistory, docVars>>

\* RedisClient.update_upload_session, first step: get_upload_session and
\* "if not session_data: return False".
UpdateUploadSessionGet(w, id, status) ==
    /\ task[w].pc = "idle"
    /\ \/ /\ id \in DOMAIN upload_session
          /\ task' = [task EXCEPT ![w] =
                        [IdleTask EXCEPT !.pc = "sess_ttl", !.id = id,
                           !.status = IF status /= None THEN status
                                      ELSE upload_session[id].status]]
          /\ ret' = [ret EXCEPT ![w] = NoRet]
       \/ /\ id \notin DOMAIN upload_session
          /\ Return(w, "update_upload_session", id, FALSE, "absent")
       \/ Return(w, "update_upload_session", id, FALSE, "error")
    /\ UNCHANGED <<scan_job, upload_session, scan_queue, jobHistory, docVars>>

UpdateUploadSessionTtl(w) ==
    /\ task[w].pc = "sess_ttl"
    /\ \/ /\ task' = [task EXCEPT ![w].pc = "sess_setex",
                                  ![w].ttl = RedisTtl(upload_session, task[w].id)]
          /\ UNCHANGED ret
       \/ Return(w, "update_upload_session", task[w].id, FALSE, "error")
    /\ UNCHANGED <<scan_job, upload_session, scan_queue, jobHistory, docVars>>

UpdateUploadSessionSetex(w) ==
    /\ task[w].pc = "sess_setex"
    /\ \/ /\ upload_session' = Put(upload_session, task[w].id,
                             [status |-> task[w].status,
                              ttl |-> Max(task[w].ttl, MinTtlSeconds)])
          /\ Return(w, "update_upload_session", task[w].id, TRUE, "ok")
       \/ /\ Return(w, "update_upload_session", task[w].id, FALSE, "error")
          /\ UNCHANGED upload_session
    /\ UNCHANGED <<scan_job, scan_queue, jobHistory, docVars>>

\* RedisClient.delete_upload_session: DEL, true iff a key was removed.
DeleteUploadSession(w, id) ==
    /\ task[w].pc = "idle"
    /\ \/ /\ upload_session' = Remove(upload_session, id)
          /\ Return(w, "delete_upload_session", id, id \in DOMAIN upload_session,
                    IF id \in DOMAIN upload_session THEN "ok" ELSE "absent")
       \/ /\ Return(w, "delete_upload_session", id, FALSE, "error")
          /\ UNCHANGED upload_session
    /\ UNCHANGED <<scan_job, scan_queue, jobHistory, docVars>>

\* Time passes: the store expires keys whose time-to-live has run out.
Tick ==
    /\ scan_job' = Expire(scan_job, TickSeconds)
    /\ upload_session' = Expire(upload_session, TickSeconds)
    /\ <<scan_job', upload_session'>> /= <<scan_job, upload_session>>
    /\ UNCHANGED <<scan_queue, task, ret, jobHistory, docVars>>

\* ------------------------------------------------------------------------
\* The Job Coordinator under concurrent callers
\* ------------------------------------------------------------------------

\* Callers of the DocumentService (request handlers).
Callers == {"c1", "c2"}

\* The bytes of an upload; a byte is a small number.
Payloads == {<<>>, <<1>>, <<1, 2>>}

\* The bytes of the documents that exist when a specification begins.
StoredBytes == <<1>>

\* hashlib.sha256(file_data).hexdigest(): the digest stands for the bytes it
\* was computed from, so equal digests mean equal bytes.
Sha256(file_data) == [sha256 |-> file_data]

\* UploadResponse(size_bytes=len(file_data), checksum=checksum); given is
\* false for a call that returned no UploadResponse.
UploadResponse(file_data) ==
    [given |-> TRUE, size_bytes |-> Len(file_data), checksum |-> Sha256(file_data)]

NoResponse == [given |-> FALSE, size_bytes |-> 0, checksum |-> Sha256(<<>>)]

IdleCall == [pc |-> "idle", op |-> None, doc |-> 0, user |-> None, tenant |-> None,
             admin |-> FALSE, sess |-> None, title |-> None, err |-> None,
             fault |-> FALSE, nested |-> FALSE, pre |-> None, data |-> <<>>,
             seen |-> [title |-> None, updated_at |-> 0, updates |-> 0]]

\* err is what the caller received, orig what the operation itself raised,
\* fault whether the database failed during the call, pre the status the
\* document had when the call began, listed the documents of a listing.
NoRes == [op |-> None, doc |-> 0, ok |-> FALSE, err |-> None, orig |-> None,
          fault |-> FALSE, pre |-> None,
          by |-> [user |-> None, tenant |-> None, admin |-> FALSE],
          response |-> NoResponse, listed |-> {}]

IdleScan == [stage |-> "idle", id |-> None, behaviour |-> [kind |-> None, text |-> <<>>],
             outcome |-> [infected |-> FALSE, threats |-> <<>>, error |-> FALSE,
                          version |-> None]]

\* int((end_time - start_time).total_seconds() * 1000) of a scan that ran.
Durations == {0, 1}

NoScanResult == [scan_id |-> None, status |-> None, result |-> None, threats |-> <<>>,
                 scanner_version |-> None, duration_ms |-> 0,
                 behaviour |-> [kind |-> None, text |-> <<>>]]

IdleRoute == [pc |-> "idle", doc |-> 0, http |-> 0, scan_result |-> NoScanResult,
              scanned |-> FALSE, primary |-> FALSE]

\* What a call of the protocol client gives back: the dictionary of
\* _scan_with_clamav or the boolean of health_check; given is false while
\* there is none.
NoReport == [given |-> FALSE, infected |-> FALSE, threats |-> <<>>, error |-> FALSE,
             version |-> None, healthy |-> FALSE]

ScanReport(infected, threats, error, version) ==
    [given |-> TRUE, infected |-> infected, threats |-> threats, error |-> error,
     version |-> version, healthy |-> FALSE]

HealthReport(healthy) == [NoReport EXCEPT !.given = TRUE, !.healthy = healthy]

IdleClient == [pc |-> "idle", op |-> None, size |-> 0, offset |-> 0, sent |-> <<>>,
               conn |-> "none", vconn |-> "none", version |-> None,
               raised |-> None, report |-> NoReport, returned |-> NoReport]

\* No scan_bytes call and no request has been made.
\* EventPublisher.__init__. topology is what the broker has confirmed on the
\* channel, connecting whether a connect() call is waiting, dropped whether
\* _on_connection_closed has run since the last open.
NewPublisher == [connection |-> None, channel |-> None, connected |-> FALSE,
                 topology |-> "none", connecting |-> FALSE, dropped |-> FALSE]

ScanBlank ==
    /\ scan = [w \in Workers |-> IdleScan]
    /\ scanned = [w \in Workers |-> NoScanResult]
    /\ route = [c \in Callers |-> IdleRoute]
    /\ client = IdleClient
    /\ scan_results = {}
    /\ publisher = NewPublisher
    /\ published = <<>>
    /\ bucket = {}
    /\ s3 = NoS3Call
    /\ rate_limit = NoRateKey
    /\ rate_clock = 0
    /\ rate_log = <<>>

\* The document side before any request.
DocsBlank ==
    /\ documents = <<>>
    /\ storage_locations = {}
    /\ versions = {}
    /\ audit_logs = EmptyBag
    /\ storage_objects = <<>>
    /\ events = EmptyBag
    /\ call = [c \in Callers |-> IdleCall]
    /\ res = [c \in Callers |-> NoRes]
    /\ now = 0

JobsInit ==
    /\ DocsBlank
    /\ ScanBlank
    /\ enabled = TRUE
    /\ scan_job = <<>>
    /\ upload_session = <<>>
    /\ scan_queue = <<>>
    /\ task = [w \in Workers |-> IdleTask]
    /\ ret = [w \in Workers |-> NoRet]
    /\ pushLog = <<>>
    /\ popLog = <<>>

\* The scan job records under two concurrent callers, so that a multi-step
\* update interleaves with another caller's calls and with expiry.
JobsNext ==
    \/ \E w \in Workers, id \in {"a"} : CreateScanJobSetex(w, id) /\ UNCHANGED <<scanVars, otherVars>>
    \/ \E w \in Workers : CreateScanJobLpush(w) /\ UNCHANGED <<scanVars, otherVars>>
    \/ \E w \in Workers, id \in {"a"}, st \in ScanStatuses \cup {None} :
          UpdateScanJobGet(w, id, Args(st, None, None)) /\ UNCHANGED <<scanVars, otherVars>>
    \/ \E w \in Workers : UpdateScanJobTtl(w) /\ UNCHANGED <<scanVars, otherVars>>
    \/ \E w \in Workers : UpdateScanJobSetex(w) /\ UNCHANGED <<scanVars, otherVars>>
    \/ Tick /\ UNCHANGED <<scanVars, otherVars>>

SpecJobs == JobsInit /\ [][JobsNext]_vars

\* Both kinds of record in one store: a scan worker keeps the job records
\* and an upload handler keeps the sessions, while keys expire.
StoreNext ==
    \/ \E w \in {"w1"}, id \in {"a"} : CreateScanJobSetex(w, id) /\ UNCHANGED <<scanVars, otherVars>>
    \/ \E w \in {"w1"} : CreateScanJobLpush(w) /\ UNCHANGED <<scanVars, otherVars>>
    \/ \E w \in {"w1"}, id \in {"a"}, st \in ScanStatuses \cup {None} :
          UpdateScanJobGet(w, id, Args(st, None, None)) /\ UNCHANGED <<scanVars, otherVars>>
    \/ \E w \in {"w1"} : UpdateScanJobTtl(w) /\ UNCHANGED <<scanVars, otherVars>>
    \/ \E w \in {"w1"} : UpdateScanJobSetex(w) /\ UNCHANGED <<scanVars, otherVars>>
    \/ \E w \in {"w2"}, id \in SessionIds : CreateUploadSession(w, id) /\ UNCHANGED <<scanVars, otherVars>>
    \/ \E w \in {"w2"}, id \in SessionIds, st \in SessionStatuses \cup {None} :
          UpdateUploadSessionGet(w, id, st) /\ UNCHANGED <<scanVars, otherVars>>
    \/ \E w \in {"w2"} : UpdateUploadSessionTtl(w) /\ UNCHANGED <<scanVars, otherVars>>
    \/ \E w \in {"w2"} : UpdateUploadSessionSetex(w) /\ UNCHANGED <<scanVars, otherVars>>
    \/ \E w \in {"w2"}, id \in SessionIds : DeleteUploadSession(w, id) /\ UNCHANGED <<scanVars, otherVars>>
    \/ Tick /\ UNCHANGED <<scanVars, otherVars>>

SpecStore == JobsInit /\ [][StoreNext]_vars

\* Time passes in steps of two lengths, so that a record can be left with
\* less than the floor of 60 seconds.
TickSteps == {TickSeconds, TickSeconds - MinTtlSeconds \div 2}

Elapse(d) ==
    /\ scan_job' = Expire(scan_job, d)
    /\ upload_session' = Expire(upload_session, d)
    /\ <<scan_job', upload_session'>> /= <<scan_job, upload_session>>
    /\ UNCHANGED <<scan_queue, task, ret, jobHistory, docVars>>

\* Records that age while a scan worker and an upload handler update them.
TtlNext ==
    \/ \E w \in {"w1"}, id \in {"a"} : CreateScanJobSetex(w, id) /\ UNCHANGED <<scanVars, otherVars>>
    \/ \E w \in {"w1"} : CreateScanJobLpush(w) /\ UNCHANGED <<scanVars, otherVars>>
    \/ \E w \in {"w1"}, id \in {"a"}, st \in {"scanning"} :
          UpdateScanJobGet(w, id, Args(st, None, None)) /\ UNCHANGED <<scanVars, otherVars>>
    \/ \E w \in {"w1"} : UpdateScanJobTtl(w) /\ UNCHANGED <<scanVars, otherVars>>
    \/ \E w \in {"w1"} : UpdateScanJobSetex(w) /\ UNCHANGED <<scanVars, otherVars>>
    \/ \E w \in {"w2"}, id \in SessionIds : CreateUploadSession(w, id) /\ UNCHANGED <<scanVars, otherVars>>
    \/ \E w \in {"w2"}, id \in SessionIds, st \in {None} :
          UpdateUploadSessionGet(w, id, st) /\ UNCHANGED <<scanVars, otherVars>>
    \/ \E w \in {"w2"} : UpdateUploadSessionTtl(w) /\ UNCHANGED <<scanVars, otherVars>>
    \/ \E w \in {"w2"} : UpdateUploadSessionSetex(w) /\ UNCHANGED <<scanVars, otherVars>>
    \/ \E d \in TickSteps : Elapse(d) /\ UNCHANGED <<scanVars, otherVars>>

SpecTtl == JobsInit /\ [][TtlNext]_vars

\* The scan queue: concurrent creators and concurrent scan workers.
QueueNext ==
    \/ \E w \in Workers, id \in ScanIds : CreateScanJobSetex(w, id) /\ UNCHANGED <<scanVars, otherVars>>
    \/ \E w \in Workers : CreateScanJobLpush(w) /\ UNCHANGED <<scanVars, otherVars>>
    \/ \E w \in Workers : PopScanJob(w) /\ UNCHANGED <<scanVars, otherVars>>
    \/ \E w \in Workers : PopScanJobTimeout(w) /\ UNCHANGED <<scanVars, otherVars>>

SpecQueue == JobsInit /\ [][QueueNext]_vars

\* ------------------------------------------------------------------------
\* DocumentService (app/services/document_service.py) over the metadata
\* store (app/models/database.py, app/database.py)
\* ------------------------------------------------------------------------

\* Who calls: user id, tenant id, and whether the scopes hold doc.admin.
Principals ==
    {[user |-> "alice", tenant |-> "t1", admin |-> FALSE],
     [user |-> "bob", tenant |-> "t1", admin |-> FALSE],
     [user |-> "root", tenant |-> "t1", admin |-> TRUE],
     [user |-> "eve", tenant |-> "t2", admin |-> FALSE]}

\* An id no upload has produced (a fresh uuid4 is never 0 here).
NoSuchDoc == 0

\* The principal whose uploads the specifications follow.
Uploaders == {p \in Principals : p.user = "alice"}

\* DocumentUpdate.title: None leaves the title as it is.
Titles == {None, "new"}

DeletedStatus == "deleted"

AuditRow(doc, action, status) ==
    [document_id |-> doc, action |-> action, status |-> status]

EventRow(type, doc) == [type |-> type, doc |-> doc]

\* The row upload_document builds: status ACTIVE, version 1.
NewDocument(user, tenant, stamp, file_data) ==
    [owner |-> user, tenant |-> tenant, status |-> "active", version |-> 1,
     title |-> "first", created_at |-> stamp, updated_at |-> stamp,
     size_bytes |-> Len(file_data), checksum |-> Sha256(file_data)]

\* A version snapshot that does not copy the size of the upload.
NewVersionUnsized(doc, file_data) ==
    [document_id |-> doc, version |-> 1, size_bytes |-> 0,
     checksum |-> Sha256(file_data)]

\* The DocumentVersion row upload_document builds: version 1 with the size
\* and the checksum of the upload.
NewVersion(doc, file_data) ==
    [document_id |-> doc, version |-> 1, size_bytes |-> Len(file_data),
     checksum |-> Sha256(file_data)]

\* A query that leaves out the tenant condition.
VisibleAnyTenant(docs, doc, tenant) ==
    /\ doc \in DOMAIN docs
    /\ docs[doc].status /= DeletedStatus

\* where Document.id == document_id, Document.tenant_id == tenant_id,
\* Document.status != DELETED; scalar_one_or_none()
Visible(docs, doc, tenant) ==
    /\ doc \in DOMAIN docs
    /\ docs[doc].tenant = tenant
    /\ docs[doc].status /= DeletedStatus

VisibleAlsoDeleted(docs, doc, tenant) ==
    /\ doc \in DOMAIN docs
    /\ docs[doc].tenant = tenant

HasPrimary(locs, doc) ==
    \E l \in locs : l.document_id = doc /\ l.is_primary

\* DocumentMetadata.validate_size: a size_bytes that is not greater than 0
\* is refused when the response model is built.
ValidSize(v) == v > 0

\* The checks of get_document and the validation of the DocumentMetadata
\* it builds: None when they pass, else the exception raised.
GetDocumentCheck(docs, locs, doc, user, tenant, admin) ==
    IF ~Visible(docs, doc, tenant) THEN "ValueError"
    ELSE IF docs[doc].owner /= user /\ ~admin THEN "PermissionError"
    ELSE IF ~HasPrimary(locs, doc) THEN "ValueError"
    ELSE IF ~ValidSize(docs[doc].size_bytes) THEN "ValidationError"
    ELSE None

\* The checks of delete_document before the soft delete.
DeleteDocumentCheck(docs, doc, user, tenant, admin) ==
    IF ~Visible(docs, doc, tenant) THEN "ValueError"
    ELSE IF docs[doc].owner /= user /\ ~admin THEN "PermissionError"
    ELSE None

\* The checks of update_document: the owner only, no admin branch.
UpdateDocumentCheck(docs, doc, user, tenant) ==
    IF ~Visible(docs, doc, tenant) THEN "ValueError"
    ELSE IF docs[doc].owner /= user THEN "PermissionError"
    ELSE None

\* audit_logs.document_id is a nullable foreign key to documents.id: the
\* insert of a row naming a document with no Document row is refused.
AuditInsertError(docs, doc) ==
    IF doc \in DOMAIN docs THEN None ELSE "IntegrityError"

RaisedAfterAudit(original, auditError) ==
    IF auditError /= None THEN auditError ELSE original

\* Events are published best-effort: the broker takes the event, or the
\* publish returns False or raises and the caller logs it.
Published(type, doc) == {events, events (+) SetToBag({EventRow(type, doc)})}

\* The call record of operation op on document doc by principal p, at pc.
CallOf(op, doc, p, pc) ==
    [IdleCall EXCEPT !.pc = pc, !.op = op, !.doc = doc, !.user = p.user,
                     !.tenant = p.tenant, !.admin = p.admin,
                     !.pre = IF doc \in DOMAIN documents THEN documents[doc].status
                             ELSE None]

\* The record of a call that has raised err and enters its except branch.
Failing(op, doc, p, err) ==
    [CallOf(op, doc, p, "fail_audit") EXCEPT !.err = err,
                                            !.fault = (err = "DatabaseError")]

\* An idle caller begins a call.
Begin(c, rec) ==
    /\ call[c].pc = "idle"
    /\ now < MaxCalls
    /\ now' = now + 1
    /\ call' = [call EXCEPT ![c] = rec]
    /\ res' = [res EXCEPT ![c] = NoRes]

\* An idle caller makes a call that returns within one step.
Once(c, op, doc, p) ==
    /\ call[c].pc = "idle"
    /\ now < MaxCalls
    /\ now' = now + 1
    /\ res' = [res EXCEPT ![c] = [op |-> op, doc |-> doc, ok |-> TRUE, err |-> None,
                                  orig |-> None, fault |-> FALSE,
                                  pre |-> CallOf(op, doc, p, "idle").pre,
                                  by |-> [user |-> p.user, tenant |-> p.tenant,
                                          admin |-> p.admin],
                                  response |-> NoResponse, listed |-> {}]]
    /\ UNCHANGED call

Goto(c, pc) == call' = [call EXCEPT ![c].pc = pc]

Fail(c, err, fault) ==
    call' = [call EXCEPT ![c].pc = "fail_audit", ![c].err = err,
                         ![c].fault = call[c].fault \/ fault]

Finish(c, ok, err, fault) ==
    /\ call' = [call EXCEPT ![c] = IdleCall]
    /\ res' = [res EXCEPT ![c] = [op |-> call[c].op, doc |-> call[c].doc, ok |-> ok,
                                  err |-> err, orig |-> call[c].err,
                                  fault |-> call[c].fault \/ fault,
                                  pre |-> call[c].pre,
                                  by |-> [user |-> call[c].user, tenant |-> call[c].tenant,
                                          admin |-> call[c].admin],
                                  response |-> IF call[c].op = "upload" /\ ok
                                               THEN UploadResponse(call[c].data)
                                               ELSE NoResponse,
                                  listed |-> {}]]

tables == <<documents, storage_locations, versions, audit_logs>>

\* --- upload_document ----------------------------------------------------

\* document_id = uuid4(); storage.upload_file(...): the object is stored, or
\* the put raises and the except branch is entered.
UploadDocumentPut(c, p, sess, file_data) ==
    /\ \/ /\ Begin(c, [CallOf("upload", now + 1, p, "upload_commit")
                         EXCEPT !.sess = sess, !.data = file_data])
          /\ storage_objects' = Put(storage_objects, now + 1, file_data)
       \/ /\ Begin(c, [Failing("upload", now + 1, p, "StorageError")
                         EXCEPT !.sess = sess, !.data = file_data])
          /\ UNCHANGED storage_objects
    /\ UNCHANGED <<tables, events, jobVars>>

\* A session that flushed each db.add at once would leave the Document row
\* behind when the commit fails.
UploadDocumentCommitPartial(c) ==
    /\ call[c].pc = "upload_commit"
    /\ documents' = Put(documents, call[c].doc,
                        NewDocument(call[c].user, call[c].tenant, call[c].doc,
                                    call[c].data))
    /\ \/ /\ storage_locations' = storage_locations \cup
                 {[document_id |-> call[c].doc, key |-> call[c].doc, is_primary |-> TRUE]}
          /\ versions' = versions \cup {NewVersion(call[c].doc, call[c].data)}
          /\ audit_logs' = audit_logs (+)
                 SetToBag({AuditRow(call[c].doc, "upload", "success")})
          /\ Goto(c, "upload_after")
       \/ /\ Fail(c, "DatabaseError", TRUE)
          /\ UNCHANGED <<storage_locations, versions, audit_logs>>
    /\ UNCHANGED <<storage_objects, events, res, now, jobVars>>

\* async with get_db(): db.add(document), db.add(storage_loc),
\* db.add(version), db.add(audit_log), db.commit(). The commit writes the
\* four rows, or raises and get_db rolls the session back.
UploadDocumentCommit(c) ==
    /\ call[c].pc = "upload_commit"
    /\ \/ /\ documents' = Put(documents, call[c].doc,
                              NewDocument(call[c].user, call[c].tenant, call[c].doc,
                                    call[c].data))
          /\ storage_locations' = storage_locations \cup
                 {[document_id |-> call[c].doc, key |-> call[c].doc, is_primary |-> TRUE]}
          /\ versions' = versions \cup {NewVersion(call[c].doc, call[c].data)}
          /\ audit_logs' = audit_logs (+)
                 SetToBag({AuditRow(call[c].doc, "upload", "success")})
          /\ Goto(c, "upload_after")
       \/ /\ Fail(c, "DatabaseError", TRUE)
          /\ UNCHANGED tables
    /\ UNCHANGED <<storage_objects, events, res, now, jobVars>>

\* After the commit: delete_upload_session(session_id) when a session id was
\* given (a store error is swallowed), publish the uploaded event
\* best-effort, return UploadResponse(status=COMPLETED).
\* What awaiting publish_document_uploaded can do: publish_event returns
\* True after basic_publish, returns False (not connected, or basic_publish
\* raised inside its own try), or an exception leaves the call.
PublishOutcomes == {"true", "false", "raises"}

\* The events the broker holds after a publish with that outcome.
EventsAfter(outcome, type, doc) ==
    IF outcome = "true" THEN events (+) SetToBag({EventRow(type, doc)}) ELSE events

\* An upload whose publish is not wrapped in try/except: an exception leaving
\* publish_document_uploaded reaches the except branch of upload_document.
UploadDocumentAfterUnguarded(c) ==
    /\ call[c].pc = "upload_after"
    /\ IF call[c].sess /= None
       THEN upload_session' \in {upload_session, Remove(upload_session, call[c].sess)}
       ELSE UNCHANGED upload_session
    /\ \E outcome \in PublishOutcomes :
          /\ events' = EventsAfter(outcome, "uploaded", call[c].doc)
          /\ IF outcome = "raises"
             THEN Fail(c, "PublishError", FALSE) /\ UNCHANGED res
             ELSE Finish(c, TRUE, None, FALSE)
    /\ UNCHANGED <<tables, storage_objects, now, scan_job, scan_queue, task, ret,
                   jobHistory>>

UploadDocumentAfter(c) ==
    /\ call[c].pc = "upload_after"
    /\ IF call[c].sess /= None
       THEN upload_session' \in {upload_session, Remove(upload_session, call[c].sess)}
       ELSE UNCHANGED upload_session
    /\ \E outcome \in PublishOutcomes :
          /\ events' = EventsAfter(outcome, "uploaded", call[c].doc)
          \* try: await publish_document_uploaded(...) except Exception: warning
          /\ Finish(c, TRUE, None, FALSE)
    /\ UNCHANGED <<tables, storage_objects, now, scan_job, scan_queue, task, ret,
                   jobHistory>>

\* --- the except branch of every operation -------------------------------

\* async with get_db(): db.add(AuditLog(status="failure")), db.commit(); raise
\* For a get_document called by update_document the caller is
\* update_document's own except branch.
FailureAudit(c) ==
    /\ call[c].pc = "fail_audit"
    /\ \E auditError \in {AuditInsertError(documents, call[c].doc), "DatabaseError"} :
          /\ IF auditError = None
             THEN audit_logs' = audit_logs (+)
                     SetToBag({AuditRow(call[c].doc,
                                        IF call[c].nested THEN "get" ELSE call[c].op,
                                        "failure")})
             ELSE UNCHANGED audit_logs
          /\ IF call[c].nested
             THEN /\ call' = [call EXCEPT
                       ![c].nested = FALSE,
                       ![c].err = RaisedAfterAudit(call[c].err, auditError),
                       ![c].fault = call[c].fault \/ auditError = "DatabaseError"]
                  /\ UNCHANGED res
             ELSE Finish(c, FALSE, RaisedAfterAudit(call[c].err, auditError),
                         auditError = "DatabaseError")
    /\ UNCHANGED <<documents, storage_locations, versions, storage_objects, events,
                   now, jobVars>>

\* --- get_document -------------------------------------------------------

\* One session: the query, the checks, the success audit entry, the commit.
GetDocument(c, doc, p) ==
    /\ LET e == GetDocumentCheck(documents, storage_locations, doc,
                                 p.user, p.tenant, p.admin) IN
       \/ /\ e = None
          /\ Once(c, "get", doc, p)
          /\ audit_logs' = audit_logs (+) SetToBag({AuditRow(doc, "get", "success")})
       \/ /\ e = None
          /\ Begin(c, Failing("get", doc, p, "DatabaseError"))
          /\ UNCHANGED audit_logs
       \/ /\ e /= None
          /\ Begin(c, Failing("get", doc, p, e))
          /\ UNCHANGED audit_logs
    /\ UNCHANGED <<documents, storage_locations, versions, storage_objects, events,
                   jobVars>>

\* --- delete_document ----------------------------------------------------

\* The query and the checks; the row read stays in the session.
DeleteDocumentSelectAny(c, doc, p) ==
    /\ LET e == IF ~VisibleAlsoDeleted(documents, doc, p.tenant) THEN "ValueError"
                ELSE IF documents[doc].owner /= p.user /\ ~p.admin
                     THEN "PermissionError" ELSE None IN
       IF e = None
       THEN Begin(c, CallOf("delete", doc, p, "delete_commit"))
       ELSE Begin(c, Failing("delete", doc, p, e))
    /\ UNCHANGED <<tables, storage_objects, events, jobVars>>

DeleteDocumentSelect(c, doc, p) ==
    /\ LET e == DeleteDocumentCheck(documents, doc, p.user, p.tenant, p.admin) IN
       IF e = None
       THEN Begin(c, CallOf("delete", doc, p, "delete_commit"))
       ELSE Begin(c, Failing("delete", doc, p, e))
    /\ UNCHANGED <<tables, storage_objects, events, jobVars>>

\* document.status = DELETED, document.updated_at = utcnow(), the success
\* audit entry, db.commit(); then the deleted event best-effort and
\* return True. A failed commit rolls back and enters the except branch.
DeleteDocumentCommit(c) ==
    /\ call[c].pc = "delete_commit"
    /\ \/ /\ documents' = [documents EXCEPT ![call[c].doc].status = DeletedStatus,
                                            ![call[c].doc].updated_at = now]
          /\ audit_logs' = audit_logs (+)
                 SetToBag({AuditRow(call[c].doc, "delete", "success")})
          /\ events' \in Published("deleted", call[c].doc)
          /\ Finish(c, TRUE, None, FALSE)
       \/ /\ Fail(c, "DatabaseError", TRUE)
          /\ UNCHANGED <<documents, audit_logs, events, res>>
    /\ UNCHANGED <<storage_locations, versions, storage_objects, now, jobVars>>

\* --- update_document ----------------------------------------------------

\* What the document held when update_document was called: the fields the
\* call may assign and the number of success audit entries of its updates.
SeenByUpdate(doc) ==
    IF doc \in DOMAIN documents
    THEN [title |-> documents[doc].title, updated_at |-> documents[doc].updated_at,
          updates |-> CopiesIn(AuditRow(doc, "update", "success"), audit_logs)]
    ELSE IdleCall.seen

UpdateDocumentSelect(c, doc, p, title) ==
    /\ LET e == UpdateDocumentCheck(documents, doc, p.user, p.tenant) IN
       IF e = None
       THEN Begin(c, [CallOf("update", doc, p, "update_commit")
                         EXCEPT !.title = title, !.seen = SeenByUpdate(doc)])
       ELSE Begin(c, [Failing("update", doc, p, e)
                         EXCEPT !.title = title, !.seen = SeenByUpdate(doc)])
    /\ UNCHANGED <<tables, storage_objects, events, jobVars>>

\* An update that counts as a new version of the document.
UpdateDocumentCommitNewVersion(c) ==
    /\ call[c].pc = "update_commit"
    /\ \/ /\ documents' = [documents EXCEPT
                 ![call[c].doc].title = IF call[c].title /= None THEN call[c].title ELSE @,
                 ![call[c].doc].version = @ + 1,
                 ![call[c].doc].updated_at = now]
          /\ audit_logs' = audit_logs (+)
                 SetToBag({AuditRow(call[c].doc, "update", "success")})
          /\ Goto(c, "update_get")
       \/ /\ Fail(c, "DatabaseError", TRUE)
          /\ UNCHANGED <<documents, audit_logs>>
    /\ UNCHANGED <<storage_locations, versions, storage_objects, events, res, now,
                   jobVars>>

\* The field assignments (a None field is left as it is), updated_at, the
\* success audit entry, db.commit(). Then the publish:
\* event_publisher.publish_document_updated is not defined by
\* EventPublisher, the attribute lookup raises AttributeError, and the
\* except Exception around it logs a warning, so no event is sent.
UpdateDocumentCommit(c) ==
    /\ call[c].pc = "update_commit"
    /\ \/ /\ documents' = [documents EXCEPT
                 ![call[c].doc].title = IF call[c].title /= None THEN call[c].title ELSE @,
                 ![call[c].doc].updated_at = now]
          /\ audit_logs' = audit_logs (+)
                 SetToBag({AuditRow(call[c].doc, "update", "success")})
          /\ Goto(c, "update_get")
       \/ /\ Fail(c, "DatabaseError", TRUE)
          /\ UNCHANGED <<documents, audit_logs>>
    /\ UNCHANGED <<storage_locations, versions, storage_objects, events, res, now,
                   jobVars>>

\* return await self.get_document(document_id, user_id, tenant_id): the
\* call passes no scopes. A get_document that raises has written its own
\* failure audit entry before update_document's except branch runs.
UpdateDocumentGet(c) ==
    /\ call[c].pc = "update_get"
    /\ LET e == GetDocumentCheck(documents, storage_locations, call[c].doc,
                                 call[c].user, call[c].tenant, FALSE) IN
       \/ /\ e = None
          /\ audit_logs' = audit_logs (+)
                 SetToBag({AuditRow(call[c].doc, "get", "success")})
          /\ Finish(c, TRUE, None, FALSE)
       \/ /\ e = None
          /\ call' = [call EXCEPT ![c].pc = "fail_audit", ![c].nested = TRUE,
                                  ![c].err = "DatabaseError", ![c].fault = TRUE]
          /\ UNCHANGED <<audit_logs, res>>
       \/ /\ e /= None
          /\ call' = [call EXCEPT ![c].pc = "fail_audit", ![c].nested = TRUE,
                                  ![c].err = e]
          /\ UNCHANGED <<audit_logs, res>>
    /\ UNCHANGED <<documents, storage_locations, versions, storage_objects, events,
                   now, jobVars>>

\* ------------------------------------------------------------------------
\* The DocumentService under its callers
\* ------------------------------------------------------------------------

\* An upload session "u" is open, as for an upload that names it.
DocsInit ==
    /\ DocsBlank
    /\ ScanBlank
    /\ enabled = TRUE
    /\ scan_job = <<>>
    /\ upload_session = [k \in SessionIds |->
                           [status |-> "pending", ttl |-> UploadSessionTtlMinutes * 60]]
    /\ scan_queue = <<>>
    /\ task = [w \in Workers |-> IdleTask]
    /\ ret = [w \in Workers |-> NoRet]
    /\ pushLog = <<>>
    /\ popLog = <<>>

\* Requests name a document that exists or the id that does not; calls are
\* made one after the other.
DocsNext ==
    \/ \E c \in {"c1"}, p \in Uploaders, sess \in SessionIds \cup {None},
          file_data \in {<<1, 2>>} :
          UploadDocumentPut(c, p, sess, file_data) /\ UNCHANGED <<scanVars, otherVars>>
    \/ \E c \in {"c1"} : UploadDocumentCommit(c) /\ UNCHANGED <<scanVars, otherVars>>
    \/ \E c \in {"c1"} : UploadDocumentAfter(c) /\ UNCHANGED <<scanVars, otherVars>>
    \/ \E c \in {"c1"} : FailureAudit(c) /\ UNCHANGED <<scanVars, otherVars>>
    \/ \E c \in {"c1"}, doc \in DOMAIN documents \cup {NoSuchDoc}, p \in Principals :
          GetDocument(c, doc, p) /\ UNCHANGED <<scanVars, otherVars>>
    \/ \E c \in {"c1"}, doc \in DOMAIN documents \cup {NoSuchDoc}, p \in Principals :
          DeleteDocumentSelect(c, doc, p) /\ UNCHANGED <<scanVars, otherVars>>
    \/ \E c \in {"c1"} : DeleteDocumentCommit(c) /\ UNCHANGED <<scanVars, otherVars>>
    \/ \E c \in {"c1"}, doc \in DOMAIN documents \cup {NoSuchDoc}, p \in Principals,
          title \in Titles :
          UpdateDocumentSelect(c, doc, p, title) /\ UNCHANGED <<scanVars, otherVars>>
    \/ \E c \in {"c1"} : UpdateDocumentCommit(c) /\ UNCHANGED <<scanVars, otherVars>>
    \/ \E c \in {"c1"} : UpdateDocumentGet(c) /\ UNCHANGED <<scanVars, otherVars>>

SpecDocs == DocsInit /\ [][DocsNext]_vars

\* Uploads of every payload, with and without an upload session, and reads
\* of what they stored.
UploadNext ==
    \/ \E c \in {"c1"}, p \in Uploaders, sess \in SessionIds \cup {None},
          file_data \in Payloads :
          UploadDocumentPut(c, p, sess, file_data) /\ UNCHANGED <<scanVars, otherVars>>
    \/ \E c \in {"c1"} : UploadDocumentCommit(c) /\ UNCHANGED <<scanVars, otherVars>>
    \/ \E c \in {"c1"} : UploadDocumentAfter(c) /\ UNCHANGED <<scanVars, otherVars>>
    \/ \E c \in {"c1"} : FailureAudit(c) /\ UNCHANGED <<scanVars, otherVars>>
    \/ \E c \in {"c1"}, doc \in DOMAIN documents, p \in Uploaders :
          GetDocument(c, doc, p) /\ UNCHANGED <<scanVars, otherVars>>

SpecUpload == DocsInit /\ [][UploadNext]_vars

\* ------------------------------------------------------------------------
\* ClamAVScanner._scan_with_clamav: the reply and its classification
\* ------------------------------------------------------------------------

\* A reply is a sequence of characters. "s" stands for a run of ordinary
\* characters such as "stream", "x" for a signature-name character, "NUL"
\* for the byte 0 and "LF" for a line feed.
OK == <<"O", "K">>

FOUND == <<"F", "O", "U", "N", "D">>

\* Characters str.strip() removes; the NUL character is not one of them.
Whitespace == {" ", "LF"}

ReplyPrefixes == {<<>>, <<"s">>}

ReplySeparators == {<<>>, <<":", " ">>}

ReplyBodies == {<<>>, OK, <<"x">> \o OK, <<"x", " ">> \o FOUND, FOUND,
                <<"E", "R", "R">>}

ReplyTerminators == {<<>>, <<"LF">>, <<"NUL">>}

\* What reader.read(1024) can give.
Replies ==
    {p \o q \o b \o t : p \in ReplyPrefixes, q \in ReplySeparators,
                        b \in ReplyBodies, t \in ReplyTerminators}

\* What the daemon does to one scan: answers with a reply, does not accept
\* the connection, does not answer in time, answers with bytes that are not
\* UTF-8, or fails while the connection is closed.
Behaviours ==
    {[kind |-> "reply", text |-> r] : r \in Replies}
      \cup {[kind |-> k, text |-> <<>>] :
               k \in {"refused", "timeout", "undecodable", "close_failed"}}

\* An exception that leaves the scan steps of scan_bytes: one raised where
\* no handler of _scan_with_clamav covers it.
Escapes == [kind |-> "escapes", text |-> <<>>]

RECURSIVE LStrip(_)
LStrip(s) == IF s /= <<>> /\ Head(s) \in Whitespace THEN LStrip(Tail(s)) ELSE s

RECURSIVE RStrip(_)
RStrip(s) ==
    IF s /= <<>> /\ s[Len(s)] \in Whitespace
    THEN RStrip(SubSeq(s, 1, Len(s) - 1))
    ELSE s

\* str.strip()
Strip(s) == RStrip(LStrip(s))

\* str.endswith(suffix)
EndsWith(s, suffix) ==
    /\ Len(s) >= Len(suffix)
    /\ SubSeq(s, Len(s) - Len(suffix) + 1, Len(s)) = suffix

\* "sub in s"
Contains(s, sub) ==
    \E i \in 1..(Len(s) - Len(sub) + 1) : SubSeq(s, i, i + Len(sub) - 1) = sub

\* str.split(ch): the parts between the occurrences of ch.
RECURSIVE Split(_, _)
Split(s, ch) ==
    IF \E i \in 1..Len(s) : s[i] = ch
    THEN LET i == CHOOSE k \in 1..Len(s) :
                     s[k] = ch /\ \A j \in 1..(k - 1) : s[j] /= ch IN
         <<SubSeq(s, 1, i - 1)>> \o Split(SubSeq(s, i + 1, Len(s)), ch)
    ELSE <<s>>

\* str.replace(old, new)
RECURSIVE Replace(_, _, _)
Replace(s, old, new) ==
    IF Len(s) < Len(old) \/ old = <<>> THEN s
    ELSE IF SubSeq(s, 1, Len(old)) = old
         THEN new \o Replace(SubSeq(s, Len(old) + 1, Len(s)), old, new)
         ELSE <<Head(s)>> \o Replace(Tail(s), old, new)

ScanError == [infected |-> FALSE, threats |-> <<>>, error |-> TRUE]

\* The "Parse response" branches on response_str. split(":")[1] on a reply
\* without a colon raises IndexError, which the outer handler turns into an
\* error report.
ParseResponse(response_str) ==
    IF EndsWith(response_str, OK)
    THEN [infected |-> FALSE, threats |-> <<>>, error |-> FALSE]
    ELSE IF Contains(response_str, FOUND)
         THEN IF Len(Split(response_str, ":")) < 2
              THEN ScanError
              ELSE [infected |-> TRUE,
                    threats |-> <<Replace(Strip(Split(response_str, ":")[2]),
                                          <<" ">> \o FOUND, <<>>)>>,
                    error |-> FALSE]
         ELSE ScanError

\* The dictionary _scan_with_clamav returns, without its version.
ScanWithClamav(behaviour) ==
    IF behaviour.kind = "reply"
    THEN ParseResponse(Strip(behaviour.text))
    ELSE ScanError

\* Whether the report carries the version _get_version fetched or the
\* "unknown" of the exception handlers.
ReachedVersion(behaviour) ==
    /\ behaviour.kind = "reply"
    /\ ~ (Contains(Strip(behaviour.text), FOUND)
            /\ ~ EndsWith(Strip(behaviour.text), OK)
            /\ Len(Split(Strip(behaviour.text), ":")) < 2)

\* _get_version: the stripped reply to zVERSION, "unknown" on any failure.
Versions == {"ClamAV", "unknown"}

\* "Determine result type"
ResultType(scan_result) ==
    IF scan_result.infected THEN "infected"
    ELSE IF scan_result.error THEN "error"
    ELSE "clean"

\* ------------------------------------------------------------------------
\* ClamAVScanner.scan_bytes
\* ------------------------------------------------------------------------

Scanners == {"w1"}

\* uuid4(): an id no record and no queue entry has had.
FreshScanIds == {id \in ScanIds : id \notin DOMAIN scan_job
                                   /\ \A i \in 1..Len(pushLog) : pushLog[i] /= id}

\* Where the call goes when the coordinator call it is inside has returned
\* (next) or has another store operation to make (more).
Stage(w, more, next) ==
    scan' = [scan EXCEPT ![w].stage = IF task'[w].pc = "idle" THEN next ELSE more]

\* A scan_bytes that does not look at the enabled flag.
ScanBytesAlways(w) ==
    /\ scan[w].stage = "idle"
    /\ task[w].pc = "idle"
    /\ Len(pushLog) + Cardinality(Creating) < MaxCreates
    /\ \E id \in FreshScanIds :
          scan' = [scan EXCEPT ![w] = [IdleScan EXCEPT !.stage = "create", !.id = id]]
    /\ scanned' = [scanned EXCEPT ![w] = NoScanResult]
    /\ UNCHANGED <<enabled, jobVars, docVars>>

\* scan_bytes is called. With scanning disabled it returns a clean result
\* at once and touches nothing.
ScanBytes(w) ==
    /\ scan[w].stage = "idle"
    /\ task[w].pc = "idle"
    /\ IF ~ enabled
       THEN /\ scanned' = [scanned EXCEPT ![w] =
                             [NoScanResult EXCEPT !.scan_id = "uuid",
                                                  !.status = "completed",
                                                  !.result = "clean",
                                                  !.scanner_version = "disabled"]]
            /\ UNCHANGED scan
       ELSE /\ Len(pushLog) + Cardinality(Creating) < MaxCreates
            /\ \E id \in FreshScanIds :
                  scan' = [scan EXCEPT ![w] =
                             [IdleScan EXCEPT !.stage = "create", !.id = id]]
            /\ scanned' = [scanned EXCEPT ![w] = NoScanResult]
    /\ UNCHANGED <<enabled, jobVars, docVars>>

\* redis_client.create_scan_job(scan_id, ...); its result is not looked at.
ScanBytesCreateSetex(w) ==
    /\ scan[w].stage = "create"
    /\ CreateScanJobSetex(w, scan[w].id)
    /\ Stage(w, "create_lpush", "mark")
    /\ UNCHANGED <<enabled, scanned>>

ScanBytesCreateLpush(w) ==
    /\ scan[w].stage = "create_lpush"
    /\ CreateScanJobLpush(w)
    /\ Stage(w, "create_lpush", "mark")
    /\ UNCHANGED <<enabled, scanned>>

\* redis_client.update_scan_job(scan_id, status="scanning")
ScanBytesMarkGet(w) ==
    /\ scan[w].stage = "mark"
    /\ UpdateScanJobGet(w, scan[w].id, Args("scanning", None, None))
    /\ Stage(w, "mark_ttl", "scan")
    /\ UNCHANGED <<enabled, scanned>>

ScanBytesMarkTtl(w) ==
    /\ scan[w].stage = "mark_ttl"
    /\ UpdateScanJobTtl(w)
    /\ Stage(w, "mark_setex", "scan")
    /\ UNCHANGED <<enabled, scanned>>

ScanBytesMarkSetex(w) ==
    /\ scan[w].stage = "mark_setex"
    /\ UpdateScanJobSetex(w)
    /\ Stage(w, "mark_setex", "scan")
    /\ UNCHANGED <<enabled, scanned>>

\* scan_result = await self._scan_with_clamav(data)
ScanBytesScan(w, behaviour, version) ==
    /\ scan[w].stage = "scan"
    /\ behaviour \in Behaviours
    /\ scan' = [scan EXCEPT ![w].stage = "record",
                            ![w].behaviour = behaviour,
                            ![w].outcome =
                               [infected |-> ScanWithClamav(behaviour).infected,
                                threats |-> ScanWithClamav(behaviour).threats,
                                error |-> ScanWithClamav(behaviour).error,
                                version |-> IF ReachedVersion(behaviour)
                                            THEN version ELSE "unknown"]]
    /\ UNCHANGED <<enabled, scanned, jobVars, docVars>>

\* redis_client.update_scan_job(scan_id, status="completed", result=...)
ScanBytesRecordGet(w) ==
    /\ scan[w].stage = "record"
    /\ UpdateScanJobGet(w, scan[w].id,
                        Args("completed", ResultType(scan[w].outcome), None))
    /\ Stage(w, "record_ttl", "return")
    /\ UNCHANGED <<enabled, scanned>>

ScanBytesRecordTtl(w) ==
    /\ scan[w].stage = "record_ttl"
    /\ UpdateScanJobTtl(w)
    /\ Stage(w, "record_setex", "return")
    /\ UNCHANGED <<enabled, scanned>>

ScanBytesRecordSetex(w) ==
    /\ scan[w].stage = "record_setex"
    /\ UpdateScanJobSetex(w)
    /\ Stage(w, "record_setex", "return")
    /\ UNCHANGED <<enabled, scanned>>

\* "except Exception as e": the scan steps raised.
ScanBytesRaise(w) ==
    /\ scan[w].stage = "scan"
    /\ scan' = [scan EXCEPT ![w].stage = "fail", ![w].behaviour = Escapes]
    /\ UNCHANGED <<enabled, scanned, jobVars, docVars>>

\* redis_client.update_scan_job(scan_id, status="failed", error_message=str(e))
ScanBytesFailGet(w) ==
    /\ scan[w].stage = "fail"
    /\ UpdateScanJobGet(w, scan[w].id, Args("failed", None, "str(e)"))
    /\ Stage(w, "fail_ttl", "return_failed")
    /\ UNCHANGED <<enabled, scanned>>

ScanBytesFailTtl(w) ==
    /\ scan[w].stage = "fail_ttl"
    /\ UpdateScanJobTtl(w)
    /\ Stage(w, "fail_setex", "return_failed")
    /\ UNCHANGED <<enabled, scanned>>

ScanBytesFailSetex(w) ==
    /\ scan[w].stage = "fail_setex"
    /\ UpdateScanJobSetex(w)
    /\ Stage(w, "fail_setex", "return_failed")
    /\ UNCHANGED <<enabled, scanned>>

\* The error result of the except branch.
ScanBytesReturnFailed(w) ==
    /\ scan[w].stage = "return_failed"
    /\ scanned' = [scanned EXCEPT ![w] =
                     [scan_id |-> scan[w].id,
                      status |-> "failed",
                      result |-> "error",
                      threats |-> <<>>,
                      scanner_version |-> "error",
                      duration_ms |-> 0,
                      behaviour |-> scan[w].behaviour]]
    /\ scan' = [scan EXCEPT ![w] = IdleScan]
    /\ UNCHANGED <<enabled, jobVars, docVars>>

\* A return whose status follows the result type: failed for an error.
ScanBytesReturnByResult(w) ==
    /\ scan[w].stage = "return"
    /\ \E duration_ms \in Durations :
       scanned' = [scanned EXCEPT ![w] =
                     [scan_id |-> scan[w].id,
                      status |-> IF scan[w].outcome.error /\ ~ scan[w].outcome.infected
                                 THEN "failed" ELSE "completed",
                      result |-> ResultType(scan[w].outcome),
                      threats |-> IF scan[w].outcome.infected
                                  THEN scan[w].outcome.threats ELSE <<>>,
                      scanner_version |-> scan[w].outcome.version,
                      duration_ms |-> duration_ms,
                      behaviour |-> scan[w].behaviour]]
    /\ scan' = [scan EXCEPT ![w] = IdleScan]
    /\ UNCHANGED <<enabled, jobVars, docVars>>

\* return result: status COMPLETED whatever the result type is.
ScanBytesReturn(w) ==
    /\ scan[w].stage = "return"
    /\ \E duration_ms \in Durations :
       scanned' = [scanned EXCEPT ![w] =
                     [scan_id |-> scan[w].id,
                      status |-> "completed",
                      result |-> ResultType(scan[w].outcome),
                      threats |-> IF scan[w].outcome.infected
                                  THEN scan[w].outcome.threats ELSE <<>>,
                      scanner_version |-> scan[w].outcome.version,
                      duration_ms |-> duration_ms,
                      behaviour |-> scan[w].behaviour]]
    /\ scan' = [scan EXCEPT ![w] = IdleScan]
    /\ UNCHANGED <<enabled, jobVars, docVars>>

ScanInit ==
    /\ DocsBlank
    /\ ScanBlank
    /\ enabled \in BOOLEAN
    /\ scan_job = <<>>
    /\ upload_session = <<>>
    /\ scan_queue = <<>>
    /\ task = [w \in Workers |-> IdleTask]
    /\ ret = [w \in Workers |-> NoRet]
    /\ pushLog = <<>>
    /\ popLog = <<>>

ScanNext ==
    \/ \E w \in Scanners : ScanBytes(w) /\ UNCHANGED otherVars
    \/ \E w \in Scanners : ScanBytesCreateSetex(w) /\ UNCHANGED otherVars
    \/ \E w \in Scanners : ScanBytesCreateLpush(w) /\ UNCHANGED otherVars
    \/ \E w \in Scanners : ScanBytesMarkGet(w) /\ UNCHANGED otherVars
    \/ \E w \in Scanners : ScanBytesMarkTtl(w) /\ UNCHANGED otherVars
    \/ \E w \in Scanners : ScanBytesMarkSetex(w) /\ UNCHANGED otherVars
    \/ \E w \in Scanners, behaviour \in Behaviours, version \in Versions :
          ScanBytesScan(w, behaviour, version) /\ UNCHANGED otherVars
    \/ \E w \in Scanners : ScanBytesRecordGet(w) /\ UNCHANGED otherVars
    \/ \E w \in Scanners : ScanBytesRecordTtl(w) /\ UNCHANGED otherVars
    \/ \E w \in Scanners : ScanBytesRecordSetex(w) /\ UNCHANGED otherVars
    \/ \E w \in Scanners : ScanBytesReturn(w) /\ UNCHANGED otherVars
    \/ \E w \in Scanners : ScanBytesRaise(w) /\ UNCHANGED otherVars
    \/ \E w \in Scanners : ScanBytesFailGet(w) /\ UNCHANGED otherVars
    \/ \E w \in Scanners : ScanBytesFailTtl(w) /\ UNCHANGED otherVars
    \/ \E w \in Scanners : ScanBytesFailSetex(w) /\ UNCHANGED otherVars
    \/ \E w \in Scanners : ScanBytesReturnFailed(w) /\ UNCHANGED otherVars

SpecScan == ScanInit /\ [][ScanNext]_vars

\* ------------------------------------------------------------------------
\* The protocol client step by step: _scan_with_clamav, _get_version and
\* health_check, one await at a time
\* ------------------------------------------------------------------------

PONG == <<"P", "O", "N", "G">>

\* What the daemon can answer to zPING.
PingReplies == {PONG, PONG \o <<"LF">>, PONG \o <<"NUL">>, <<>>}

\* Payload lengths: empty, one byte, and around each multiple of chunk_size.
PayloadSizes ==
    {0, 1, ChunkSize - 1}
      \cup {k * ChunkSize + d : k \in 1..MaxChunks, d \in {0, 1}}

\* int.to_bytes(4, byteorder='big')
ToBytes4(n) ==
    <<(n \div 16777216) % 256, (n \div 65536) % 256, (n \div 256) % 256, n % 256>>

Min(a, b) == IF a <= b THEN a ELSE b

\* The end of the slice data[offset:offset + chunk_size].
ChunkEndUnclamped(offset, size) == offset + ChunkSize

ChunkEnd(offset, size) == Min(offset + ChunkSize, size)

\* writer.write(...): what has been handed to the connection, in order. The
\* payload bytes are known by their positions in data.
Written(kind, bytes, from, to) ==
    [kind |-> kind, bytes |-> bytes, from |-> from, to |-> to]

CommandOf(op) == IF op = "scan" THEN "zINSTREAM NUL" ELSE "zPING NUL"

\* The error dictionaries of the two outer handlers; health_check gives False.
ClientFailure(op) ==
    IF op = "scan"
    THEN ScanReport(FALSE, <<>>, TRUE, "unknown")
    ELSE HealthReport(FALSE)

\* The call ends and gives value to its caller.
ClientReturn(value) ==
    [client EXCEPT !.pc = "idle", !.returned = value]

\* _scan_with_clamav(data) is called with a payload of size bytes.
ScanWithClamavCall(size) ==
    /\ client.pc = "idle"
    /\ client' = [IdleClient EXCEPT !.pc = "connect", !.op = "scan", !.size = size]

\* health_check(): True at once when scanning is disabled.
HealthCheckCall ==
    /\ client.pc = "idle"
    /\ client' = IF enabled
                 THEN [IdleClient EXCEPT !.pc = "connect", !.op = "health"]
                 ELSE [IdleClient EXCEPT !.returned = HealthReport(TRUE)]

\* wait_for(open_connection(host, port), timeout): connected, refused, or
\* not connected in time; the last two go to the outer handlers.
ClientConnect ==
    /\ client.pc = "connect"
    /\ \/ client' = [client EXCEPT !.pc = "command", !.conn = "open"]
       \/ client' = ClientReturn(ClientFailure(client.op))

\* writer.write(command); await writer.drain()
ClientCommand ==
    /\ client.pc = "command"
    /\ \E drained \in BOOLEAN :
          client' = [client EXCEPT
             !.sent = Append(@, Written("command", CommandOf(client.op), 0, 0)),
             !.pc = IF ~ drained THEN "close"
                    ELSE IF client.op = "scan" THEN "chunks" ELSE "read",
             !.raised = IF drained THEN None ELSE "Exception"]

\* One turn of "while offset < len(data)": the length, the chunk, drain().
\* drain() has no deadline: it returns, raises, or waits for a daemon that
\* has stopped reading.
ClientChunk ==
    /\ client.pc = "chunks"
    /\ client.offset < client.size
    /\ \E drain \in {"ok", "raises", "waits"} :
          client' = [client EXCEPT
             !.sent = @ \o <<Written("length",
                                     ToBytes4(ChunkEnd(client.offset, client.size)
                                                - client.offset), 0, 0),
                             Written("data", <<>>, client.offset,
                                     ChunkEnd(client.offset, client.size))>>,
             !.offset = IF drain = "ok" THEN @ + ChunkSize ELSE @,
             !.pc = IF drain = "ok" THEN "chunks"
                    ELSE IF drain = "raises" THEN "close" ELSE "waiting",
             !.raised = IF drain = "raises" THEN "Exception" ELSE None]

\* writer.write(b'\x00\x00\x00\x00'); await writer.drain()
ClientEnd ==
    /\ client.pc = "chunks"
    /\ client.offset >= client.size
    /\ \E drained \in BOOLEAN :
          client' = [client EXCEPT
             !.sent = Append(@, Written("length", <<0, 0, 0, 0>>, 0, 0)),
             !.pc = IF drained THEN "read" ELSE "close",
             !.raised = IF drained THEN None ELSE "Exception"]

\* wait_for(reader.read(1024), timeout), decode, strip and the branches on
\* the reply. A reply in time is parsed; for a scan the branch taken then
\* calls _get_version before it returns.
ClientRead(behaviour) ==
    /\ client.pc = "read"
    /\ behaviour.kind \in {"reply", "timeout", "undecodable"}
    /\ IF behaviour.kind /= "reply"
       THEN client' = [client EXCEPT
               !.pc = "close",
               !.raised = IF behaviour.kind = "timeout" THEN "TimeoutError"
                          ELSE "Exception"]
       ELSE IF client.op = "health"
       THEN /\ behaviour.text \in PingReplies
            /\ client' = [client EXCEPT
                  !.pc = "close",
                  !.report = HealthReport(Strip(behaviour.text) = PONG)]
       ELSE /\ behaviour.text \in Replies
            /\ client' = IF ReachedVersion(behaviour)
                         THEN [client EXCEPT
                                 !.pc = "version",
                                 !.report =
                                    ScanReport(
                                       ParseResponse(Strip(behaviour.text)).infected,
                                       ParseResponse(Strip(behaviour.text)).threats,
                                       ParseResponse(Strip(behaviour.text)).error,
                                       None)]
                         ELSE [client EXCEPT !.pc = "close", !.raised = "Exception"]

\* _get_version: wait_for(open_connection(...)); a failure gives "unknown".
ClientVersionConnect ==
    /\ client.pc = "version"
    /\ \/ client' = [client EXCEPT !.pc = "version_read", !.vconn = "open"]
       \/ client' = [client EXCEPT !.pc = "close", !.version = "unknown"]

\* _get_version: zVERSION, drain, read with a deadline, and the finally
\* block: writer.close(); await writer.wait_closed(), which has no deadline.
ClientVersionClose ==
    /\ client.pc = "version_read"
    /\ \E outcome \in {"ok", "raises", "waits"} :
          client' = [client EXCEPT
             !.vconn = "closed",
             !.version = IF outcome = "ok" THEN "ClamAV" ELSE "unknown",
             !.pc = IF outcome = "waits" THEN "waiting" ELSE "close"]

\* A return that skips the finally block when the body has raised.
ClientCloseOnSuccess ==
    /\ client.pc = "close"
    /\ IF client.raised /= None
       THEN client' = ClientReturn(ClientFailure(client.op))
       ELSE client' = [ClientReturn(
                          IF client.op = "health" THEN client.report
                          ELSE [client.report EXCEPT !.version = client.version])
                       EXCEPT !.conn = "closed"]

\* finally: writer.close(); await writer.wait_closed(). The call then
\* returns what the body returned, or what the outer handler makes of the
\* exception of the body or of wait_closed(); wait_closed() has no deadline.
ClientClose ==
    /\ client.pc = "close"
    /\ \E closing \in {"ok", "raises", "waits"} :
          client' =
             IF closing = "waits"
             THEN [client EXCEPT !.pc = "waiting", !.conn = "closed"]
             ELSE IF closing = "raises" \/ client.raised /= None
             THEN [ClientReturn(ClientFailure(client.op)) EXCEPT !.conn = "closed"]
             ELSE [ClientReturn(
                      IF client.op = "health" THEN client.report
                      ELSE [client.report EXCEPT !.version = client.version])
                   EXCEPT !.conn = "closed"]

ClientInit ==
    /\ DocsBlank
    /\ ScanBlank
    /\ enabled \in BOOLEAN
    /\ scan_job = <<>>
    /\ upload_session = <<>>
    /\ scan_queue = <<>>
    /\ task = [w \in Workers |-> IdleTask]
    /\ ret = [w \in Workers |-> NoRet]
    /\ pushLog = <<>>
    /\ popLog = <<>>

ClientFrame == UNCHANGED <<jobVars, docVars, scanVars, apiVars, resultVars, publisherVars,
                   gatewayVars, limitVars>>

ClientNext ==
    \/ \E size \in PayloadSizes : ScanWithClamavCall(size) /\ ClientFrame
    \/ HealthCheckCall /\ ClientFrame
    \/ ClientConnect /\ ClientFrame
    \/ ClientCommand /\ ClientFrame
    \/ ClientChunk /\ ClientFrame
    \/ ClientEnd /\ ClientFrame
    \/ \E behaviour \in Behaviours \cup {[kind |-> "reply", text |-> r] : r \in PingReplies} :
          ClientRead(behaviour) /\ ClientFrame
    \/ ClientVersionConnect /\ ClientFrame
    \/ ClientVersionClose /\ ClientFrame
    \/ ClientClose /\ ClientFrame

SpecClient == ClientInit /\ [][ClientNext]_vars

\* The event loop runs every coroutine that can take a step.
SpecClientLive == SpecClient /\ WF_vars(ClientNext)

\* ------------------------------------------------------------------------
\* scan_document (app/api/rest_routes.py): POST /documents/{id}/scan
\* ------------------------------------------------------------------------

\* A document whose rows include no StorageLocation at all.
Unlocated == 2

\* Documents a scan can be requested for: one as upload_document leaves it
\* and one that has lost its storage location rows.
RouteDocs == {1, Unlocated}

\* The daemon behaviours the requests are followed through: a clean reply,
\* an infected reply, and no reply in time.
RouteBehaviours ==
    {b \in Behaviours :
        \/ b.kind = "timeout"
        \/ b.text \in {<<"s", ":", " ">> \o OK,
                       <<"s", ":", " ", "x", " ">> \o FOUND}}

RouteAnswer(c, http, result) ==
    route' = [route EXCEPT ![c].pc = "idle", ![c].http = http,
                           ![c].scan_result = result]

\* HTTPException status of the route's except branches.
HttpStatusOf(err) ==
    IF err = "ValueError" THEN 404
    ELSE IF err = "PermissionError" THEN 403
    ELSE 500

\* document = await document_service.get_document(...)
ScanDocument(c, doc, p) ==
    /\ route[c].pc = "idle"
    /\ scan["w1"].stage = "idle"
    /\ GetDocument(c, doc, p)
    /\ route' = [route EXCEPT ![c] =
                   [IdleRoute EXCEPT !.pc = "get", !.doc = doc,
                                     !.primary = HasPrimary(storage_locations, doc)]]
    /\ UNCHANGED <<scanVars, clientVars, resultVars, publisherVars,
                   gatewayVars, limitVars>>

\* The except branch of get_document inside the request.
ScanDocumentFailureAudit(c) ==
    /\ route[c].pc = "get"
    /\ FailureAudit(c)
    /\ UNCHANGED <<scanVars, otherVars>>

\* get_document has returned or raised; file_data = download_file(location).
ScanDocumentDownload(c) ==
    /\ route[c].pc = "get"
    /\ call[c].pc = "idle"
    /\ IF res[c].ok
       THEN \/ route' = [route EXCEPT ![c].pc = "scan"]
            \/ RouteAnswer(c, HttpStatusOf("StorageError"), NoScanResult)
       ELSE RouteAnswer(c, HttpStatusOf(res[c].err), NoScanResult)
    /\ UNCHANGED <<jobVars, docVars, scanVars, clientVars, resultVars, publisherVars,
                   gatewayVars, limitVars>>

\* scan_result = await virus_scanner.scan_bytes(data, document_id)
ScanDocumentScanBytes(c) ==
    /\ route[c].pc = "scan"
    /\ ScanBytes("w1")
    /\ route' = [route EXCEPT ![c].pc = "scanning", ![c].scanned = TRUE]
    /\ UNCHANGED <<clientVars, resultVars, publisherVars,
                   gatewayVars, limitVars>>

\* publish_document_scanned (best-effort inside publish_event) and the
\* response built from the ScanResult.
ScanDocumentRespond(c) ==
    /\ route[c].pc = "scanning"
    /\ scan["w1"].stage = "idle"
    /\ events' \in Published("scanned", route[c].doc)
    /\ RouteAnswer(c, 200, scanned["w1"])
    /\ UNCHANGED <<documents, storage_locations, versions, audit_logs,
                   storage_objects, call, res, now, jobVars, scanVars, clientVars,
                   resultVars, publisherVars,
                   gatewayVars, limitVars>>

\* The checks of get_scan_result: the document query, the owner (no admin
\* branch), the scan_results row for (document_id, scan_id).
GetScanResultCheck(docs, rows, doc, scan_id, user, tenant) ==
    IF ~Visible(docs, doc, tenant) THEN "ValueError"
    ELSE IF docs[doc].owner /= user THEN "PermissionError"
    ELSE IF ~ \E r \in rows : r.document_id = doc /\ r.scan_id = scan_id
         THEN "ValueError"
    ELSE None

\* DocumentService.get_scan_result, one session: the checks, the success
\* audit entry, the commit.
GetScanResult(c, doc, scan_id, p) ==
    /\ route[c].pc = "idle"
    /\ LET e == GetScanResultCheck(documents, scan_results, doc, scan_id,
                                   p.user, p.tenant) IN
       \/ /\ e = None
          /\ Once(c, "get_scan_result", doc, p)
          /\ audit_logs' = audit_logs (+)
                 SetToBag({AuditRow(doc, "get_scan_result", "success")})
       \/ /\ e = None
          /\ Begin(c, Failing("get_scan_result", doc, p, "DatabaseError"))
          /\ UNCHANGED audit_logs
       \/ /\ e /= None
          /\ Begin(c, Failing("get_scan_result", doc, p, e))
          /\ UNCHANGED audit_logs
    /\ UNCHANGED <<documents, storage_locations, versions, storage_objects, events,
                   jobVars, scanVars, otherVars>>

\* The except branch of a DocumentService call made outside a scan request.
GetScanResultFailureAudit(c) ==
    /\ route[c].pc = "idle"
    /\ FailureAudit(c)
    /\ UNCHANGED <<scanVars, otherVars>>

RouteInit ==
    /\ documents = [d \in RouteDocs |-> NewDocument("alice", "t1", 0, StoredBytes)]
    /\ storage_locations = {[document_id |-> 1, key |-> 1, is_primary |-> TRUE]}
    /\ versions = {NewVersion(d, StoredBytes) : d \in RouteDocs}
    /\ audit_logs = EmptyBag
    /\ storage_objects = [d \in RouteDocs |-> StoredBytes]
    /\ events = EmptyBag
    /\ call = [c \in Callers |-> IdleCall]
    /\ res = [c \in Callers |-> NoRes]
    /\ now = 0
    /\ ScanBlank
    /\ enabled \in BOOLEAN
    /\ scan_job = <<>>
    /\ upload_session = <<>>
    /\ scan_queue = <<>>
    /\ task = [w \in Workers |-> IdleTask]
    /\ ret = [w \in Workers |-> NoRet]
    /\ pushLog = <<>>
    /\ popLog = <<>>

RouteNext ==
    \/ \E c \in {"c1"}, doc \in RouteDocs \cup {NoSuchDoc}, p \in Uploaders :
          ScanDocument(c, doc, p)
    \/ \E c \in {"c1"} : ScanDocumentFailureAudit(c)
    \/ \E c \in {"c1"} : ScanDocumentDownload(c)
    \/ \E c \in {"c1"} : ScanDocumentScanBytes(c)
    \/ \E c \in {"c1"} : ScanDocumentRespond(c)
    \/ \E c \in {"c1"}, doc \in RouteDocs, p \in Uploaders :
          /\ route[c].http = 200
          /\ route[c].doc = doc
          /\ GetScanResult(c, doc, route[c].scan_result.scan_id, p)
    \/ \E c \in {"c1"} : GetScanResultFailureAudit(c)
    \/ \E w \in Scanners : ScanBytesCreateSetex(w) /\ UNCHANGED otherVars
    \/ \E w \in Scanners : ScanBytesCreateLpush(w) /\ UNCHANGED otherVars
    \/ \E w \in Scanners : ScanBytesMarkGet(w) /\ UNCHANGED otherVars
    \/ \E w \in Scanners : ScanBytesMarkTtl(w) /\ UNCHANGED otherVars
    \/ \E w \in Scanners : ScanBytesMarkSetex(w) /\ UNCHANGED otherVars
    \/ \E w \in Scanners, behaviour \in RouteBehaviours, version \in {"ClamAV"} :
          ScanBytesScan(w, behaviour, version) /\ UNCHANGED otherVars
    \/ \E w \in Scanners : ScanBytesRecordGet(w) /\ UNCHANGED otherVars
    \/ \E w \in Scanners : ScanBytesRecordTtl(w) /\ UNCHANGED otherVars
    \/ \E w \in Scanners : ScanBytesRecordSetex(w) /\ UNCHANGED otherVars
    \/ \E w \in Scanners : ScanBytesReturn(w) /\ UNCHANGED otherVars
    \/ \E w \in Scanners : ScanBytesRaise(w) /\ UNCHANGED otherVars
    \/ \E w \in Scanners : ScanBytesFailGet(w) /\ UNCHANGED otherVars
    \/ \E w \in Scanners : ScanBytesFailTtl(w) /\ UNCHANGED otherVars
    \/ \E w \in Scanners : ScanBytesFailSetex(w) /\ UNCHANGED otherVars
    \/ \E w \in Scanners : ScanBytesReturnFailed(w) /\ UNCHANGED otherVars

SpecRoute == RouteInit /\ [][RouteNext]_vars

\* ------------------------------------------------------------------------
\* EventPublisher (app/services/event_publisher.py)
\* ------------------------------------------------------------------------

\* Number of publish_event calls a behaviour may make.
MaxPublishes == 3

EventTypes == {"uploaded", "scanned", "deleted"}

\* connect(): line 50 awaits a future the event loop has just created and
\* that nothing resolves, so the call waits there; the assignment to
\* self.connection and the AsyncioConnection of line 51 are not reached.
PublisherConnect ==
    /\ ~ publisher.connecting
    /\ publisher' = [publisher EXCEPT !.connecting = TRUE]
    /\ UNCHANGED published

\* The future the open callbacks resolve, stored in self.connection by the
\* embedding, as the fixtures of test_on_connection_open and
\* test_connect_success do (publisher.connection = mock_future).
SetConnectionFuture ==
    /\ publisher.connection = None
    /\ publisher' = [publisher EXCEPT !.connection = "future"]
    /\ UNCHANGED published

\* _on_connection_open, called by the connection library:
\* self.connection.set_result(connection) raises AttributeError while
\* self.connection is None and InvalidStateError once the future has a
\* result, before connected is set.
OnConnectionOpen ==
    /\ publisher' = IF publisher.connection = "future"
                    THEN [publisher EXCEPT !.connection = "open", !.connected = TRUE,
                                           !.dropped = FALSE]
                    ELSE publisher
    /\ UNCHANGED published

\* _on_connection_closed: connected = False, channel = None.
OnConnectionClosed ==
    /\ publisher' = [publisher EXCEPT !.connected = FALSE, !.channel = None,
                                      !.topology = "none", !.dropped = TRUE]
    /\ UNCHANGED published

\* _on_channel_open: the channel is kept and the exchange declaration is
\* requested.
OnChannelOpen ==
    /\ publisher.channel = None
    /\ publisher' = [publisher EXCEPT !.channel = "channel", !.topology = "none"]
    /\ UNCHANGED published

\* _on_exchange_declare, _on_queue_declare: the broker has confirmed one
\* step and the next is requested on self.channel.
OnExchangeDeclare ==
    /\ publisher.channel /= None
    /\ publisher.topology = "none"
    /\ publisher' = [publisher EXCEPT !.topology = "exchange"]
    /\ UNCHANGED published

OnQueueDeclare ==
    /\ publisher.channel /= None
    /\ publisher.topology = "exchange"
    /\ publisher' = [publisher EXCEPT !.topology = "queue"]
    /\ UNCHANGED published

\* _on_queue_bind: the queue is bound to the exchange.
OnQueueBind ==
    /\ publisher.channel /= None
    /\ publisher.topology = "queue"
    /\ publisher' = [publisher EXCEPT !.topology = "bound"]
    /\ UNCHANGED published

\* disconnect(): closes self.connection if it is there and not closed, then
\* connected = False. A pending future has no is_closed: AttributeError.
PublisherDisconnect ==
    /\ publisher' = IF publisher.connection = "future"
                    THEN publisher
                    ELSE [publisher EXCEPT
                            !.connected = FALSE,
                            !.connection = IF @ = "open" THEN "closed" ELSE @]
    /\ UNCHANGED published

\* Whether publish_event passes its first check.
CanPublish(p) == p.connected /\ p.channel /= None

\* publish_event: False at once when not connected or without a channel;
\* else basic_publish, True, or False when anything raised. basic_publish
\* only writes the frame: the broker routes the message to the queue when
\* the exchange is declared and the queue bound, and drops it otherwise.
PublishEvent(type, doc) ==
    /\ Len(published) < MaxPublishes
    /\ \E sent \in (IF CanPublish(publisher) THEN BOOLEAN ELSE {FALSE}) :
          /\ events' = IF sent /\ publisher.topology = "bound"
                       THEN events (+) SetToBag({EventRow(type, doc)})
                       ELSE events
          /\ published' = Append(published,
                                 [type |-> type, returned |-> sent,
                                  dropped |-> publisher.dropped,
                                  bound |-> publisher.topology = "bound"])
    /\ UNCHANGED publisher

PublisherInit ==
    /\ DocsBlank
    /\ ScanBlank
    /\ enabled = TRUE
    /\ scan_job = <<>>
    /\ upload_session = <<>>
    /\ scan_queue = <<>>
    /\ task = [w \in Workers |-> IdleTask]
    /\ ret = [w \in Workers |-> NoRet]
    /\ pushLog = <<>>
    /\ popLog = <<>>

PublisherFrame ==
    UNCHANGED <<jobVars, scanVars, apiVars, clientVars, resultVars, documents,
                storage_locations, versions, audit_logs, storage_objects, call,
                res, now, gatewayVars, limitVars>>

\* The connection library calls the callbacks; callers publish.
PublisherNext ==
    \/ PublisherConnect /\ PublisherFrame /\ UNCHANGED events
    \/ SetConnectionFuture /\ PublisherFrame /\ UNCHANGED events
    \/ OnConnectionOpen /\ PublisherFrame /\ UNCHANGED events
    \/ OnConnectionClosed /\ PublisherFrame /\ UNCHANGED events
    \/ OnChannelOpen /\ PublisherFrame /\ UNCHANGED events
    \/ OnExchangeDeclare /\ PublisherFrame /\ UNCHANGED events
    \/ OnQueueDeclare /\ PublisherFrame /\ UNCHANGED events
    \/ OnQueueBind /\ PublisherFrame /\ UNCHANGED events
    \/ PublisherDisconnect /\ PublisherFrame /\ UNCHANGED events
    \/ \E type \in EventTypes, doc \in {1} : PublishEvent(type, doc) /\ PublisherFrame

SpecPublisher == PublisherInit /\ [][PublisherNext]_vars

\* ------------------------------------------------------------------------
\* update_document next to the publisher's connection
\* ------------------------------------------------------------------------

\* Two documents of alice exist; the connection comes and goes while
\* callers update.
UpdateInit == RouteInit /\ enabled

UpdateNext ==
    \/ \E c \in {"c1"}, doc \in RouteDocs, p \in Uploaders, title \in {"new"} :
          UpdateDocumentSelect(c, doc, p, title) /\ UNCHANGED <<scanVars, otherVars>>
    \/ \E c \in {"c1"} : UpdateDocumentCommit(c) /\ UNCHANGED <<scanVars, otherVars>>
    \/ \E c \in {"c1"} : UpdateDocumentGet(c) /\ UNCHANGED <<scanVars, otherVars>>
    \/ \E c \in {"c1"} : FailureAudit(c) /\ UNCHANGED <<scanVars, otherVars>>
    \/ SetConnectionFuture /\ PublisherFrame /\ UNCHANGED events
    \/ OnConnectionOpen /\ PublisherFrame /\ UNCHANGED events
    \/ OnChannelOpen /\ PublisherFrame /\ UNCHANGED events
    \/ OnExchangeDeclare /\ PublisherFrame /\ UNCHANGED events
    \/ OnQueueDeclare /\ PublisherFrame /\ UNCHANGED events
    \/ OnQueueBind /\ PublisherFrame /\ UNCHANGED events
    \/ OnConnectionClosed /\ PublisherFrame /\ UNCHANGED events

SpecUpdate == UpdateInit /\ [][UpdateNext]_vars

\* ------------------------------------------------------------------------
\* Concurrent requests for one document
\* ------------------------------------------------------------------------

\* Two requests of the owner at a time, each in its own database session:
\* the rows a session has read are not locked, and its commit writes the
\* attributes it changed by the row's id.
RaceNext ==
    \/ \E c \in Callers, p \in Uploaders :
          DeleteDocumentSelect(c, 1, p) /\ UNCHANGED <<scanVars, otherVars>>
    \/ \E c \in Callers : DeleteDocumentCommit(c) /\ UNCHANGED <<scanVars, otherVars>>
    \/ \E c \in Callers, p \in Uploaders :
          UpdateDocumentSelect(c, 1, p, "new") /\ UNCHANGED <<scanVars, otherVars>>
    \/ \E c \in Callers : UpdateDocumentCommit(c) /\ UNCHANGED <<scanVars, otherVars>>
    \/ \E c \in Callers : UpdateDocumentGet(c) /\ UNCHANGED <<scanVars, otherVars>>
    \/ \E c \in Callers : FailureAudit(c) /\ UNCHANGED <<scanVars, otherVars>>

SpecRace == UpdateInit /\ [][RaceNext]_vars

\* ------------------------------------------------------------------------
\* The DocumentService called from two tenants
\* ------------------------------------------------------------------------

\* where Document.tenant_id == tenant_id, Document.status != DELETED, and
\* Document.owner_id == request.user_id when the request names a user.
ListQuery(docs, tenant, owner) ==
    {d \in DOMAIN docs :
        /\ Visible(docs, d, tenant)
        /\ owner /= None => docs[d].owner = owner}

\* DocumentService.list_documents: one query, no audit entry; an exception
\* is logged and raised again.
ListDocuments(c, p, owner) ==
    /\ call[c].pc = "idle"
    /\ now < MaxCalls
    /\ now' = now + 1
    /\ \E failed \in BOOLEAN :
          LET rows == ListQuery(documents, p.tenant, owner)
              \* DocumentMetadata(...) is built for every row of the page
              invalid == \E d \in rows : ~ValidSize(documents[d].size_bytes) IN
          res' = [res EXCEPT ![c] =
                     [NoRes EXCEPT !.op = "list", !.ok = ~failed /\ ~invalid,
                                   !.err = IF failed THEN "DatabaseError"
                                           ELSE IF invalid THEN "ValidationError"
                                           ELSE None,
                                   !.fault = failed,
                                   !.by = [user |-> p.user, tenant |-> p.tenant,
                                           admin |-> p.admin],
                                   !.listed = IF failed \/ invalid THEN {} ELSE rows]]
    /\ UNCHANGED <<tables, storage_objects, events, call, jobVars>>

\* The owner of document 1, and callers from the other tenant: a plain
\* user, and one with the owner's user id and the doc.admin scope.
TenantPrincipals ==
    {[user |-> "alice", tenant |-> "t1", admin |-> FALSE],
     [user |-> "eve", tenant |-> "t2", admin |-> FALSE],
     [user |-> "alice", tenant |-> "t2", admin |-> TRUE]}

TenantDocs == {1, 2}

\* Document 1 belongs to alice of tenant t1, document 2 to eve of tenant t2.
TenantInit ==
    /\ documents = [d \in TenantDocs |->
                       IF d = 1 THEN NewDocument("alice", "t1", 0, StoredBytes)
                                ELSE NewDocument("eve", "t2", 0, StoredBytes)]
    /\ storage_locations = {[document_id |-> d, key |-> d, is_primary |-> TRUE] :
                               d \in TenantDocs}
    /\ versions = {NewVersion(d, StoredBytes) : d \in TenantDocs}
    /\ audit_logs = EmptyBag
    /\ storage_objects = [d \in TenantDocs |-> StoredBytes]
    /\ events = EmptyBag
    /\ call = [c \in Callers |-> IdleCall]
    /\ res = [c \in Callers |-> NoRes]
    /\ now = 0
    /\ ScanBlank
    /\ enabled = TRUE
    /\ scan_job = <<>>
    /\ upload_session = <<>>
    /\ scan_queue = <<>>
    /\ task = [w \in Workers |-> IdleTask]
    /\ ret = [w \in Workers |-> NoRet]
    /\ pushLog = <<>>
    /\ popLog = <<>>

TenantNext ==
    \/ \E c \in {"c1"}, doc \in TenantDocs, p \in TenantPrincipals :
          GetDocument(c, doc, p) /\ UNCHANGED <<scanVars, otherVars>>
    \/ \E c \in {"c1"}, doc \in TenantDocs, p \in TenantPrincipals :
          UpdateDocumentSelect(c, doc, p, "new") /\ UNCHANGED <<scanVars, otherVars>>
    \/ \E c \in {"c1"} : UpdateDocumentCommit(c) /\ UNCHANGED <<scanVars, otherVars>>
    \/ \E c \in {"c1"} : UpdateDocumentGet(c) /\ UNCHANGED <<scanVars, otherVars>>
    \/ \E c \in {"c1"}, doc \in TenantDocs, p \in TenantPrincipals :
          DeleteDocumentSelect(c, doc, p) /\ UNCHANGED <<scanVars, otherVars>>
    \/ \E c \in {"c1"} : DeleteDocumentCommit(c) /\ UNCHANGED <<scanVars, otherVars>>
    \/ \E c \in {"c1"}, doc \in TenantDocs, p \in TenantPrincipals :
          GetScanResult(c, doc, "s1", p)
    \/ \E c \in {"c1"}, p \in TenantPrincipals, owner \in {None, "alice"} :
          ListDocuments(c, p, owner) /\ UNCHANGED <<scanVars, otherVars>>
    \/ \E c \in {"c1"} : FailureAudit(c) /\ UNCHANGED <<scanVars, otherVars>>

SpecTenants == TenantInit /\ [][TenantNext]_vars

\* ------------------------------------------------------------------------
\* S3StorageBackend (app/storage/s3_backend.py): the Storage Gateway
\* ------------------------------------------------------------------------

ObjectKeys == {"k1", "k2"}

\* What one call of the S3 API does: it answers, it raises a ClientError with
\* an error code, or it raises another exception of the client library.
BackendOk == [kind |-> "ok", code |-> None]
ClientError(code) == [kind |-> "client", code |-> code]
Unexpected(exception) == [kind |-> "other", code |-> exception]

\* Failures any call can meet, whatever the key.
BackendFaults ==
    {ClientError(code) : code \in {"AccessDenied", "NoSuchBucket", "BucketNotFound",
                                   "InternalError"}}
      \cup {Unexpected(e) : e \in {"EndpointConnectionError", "NoCredentialsError"}}

PutObject == {BackendOk, ClientError("QuotaExceeded")} \cup BackendFaults

GetObject(key) ==
    (IF key \in bucket THEN {BackendOk} ELSE {ClientError("NoSuchKey")})
      \cup BackendFaults

\* HEAD has no error body: a missing key is reported with the code "404" by
\* S3 and with "NoSuchKey" by the test doubles.
HeadObject(key) ==
    (IF key \in bucket THEN {BackendOk}
                       ELSE {ClientError("404"), ClientError("NoSuchKey")})
      \cup BackendFaults

DeleteObject == {BackendOk} \cup BackendFaults

CopyObject(key) == GetObject(key) \cup {ClientError("QuotaExceeded")}

ListObjectsV2 == {BackendOk} \cup BackendFaults

\* _handle_client_error with one bucket code only.
HandleClientErrorOneBucketCode(error_code) ==
    CASE error_code = "NoSuchKey"     -> "FileNotFoundError"
      [] error_code = "AccessDenied"  -> "StoragePermissionError"
      [] error_code = "QuotaExceeded" -> "StorageQuotaError"
      [] error_code = "NoSuchBucket"  -> "StorageConnectionError"
      [] OTHER                        -> "StorageError"

\* _handle_client_error: the exception class raised for an error code.
HandleClientError(error_code) ==
    CASE error_code = "NoSuchKey"     -> "FileNotFoundError"
      [] error_code = "AccessDenied"  -> "StoragePermissionError"
      [] error_code = "QuotaExceeded" -> "StorageQuotaError"
      [] error_code \in {"NoSuchBucket", "BucketNotFound"} -> "StorageConnectionError"
      [] OTHER                        -> "StorageError"

\* try: ...; return value
\* except ClientError as e: await self._handle_client_error(e, op)
\* except Exception as e: raise StorageError(...)
\* An exception raised by the first handler is not caught by the second.
Guarded(op, key, outcome, value) ==
    [op |-> op, key |-> key, error |-> outcome,
     raised |-> CASE outcome.kind = "ok"     -> None
                  [] outcome.kind = "client" -> HandleClientError(outcome.code)
                  [] OTHER                   -> "StorageError",
     returned |-> IF outcome.kind = "ok" THEN value ELSE None]

UploadFile(key) ==
    \E outcome \in PutObject :
       /\ s3' = Guarded("upload_file", key, outcome, "location")
       /\ bucket' = IF outcome = BackendOk THEN bucket \cup {key} ELSE bucket

DownloadFile(key) ==
    \E outcome \in GetObject(key) :
       /\ s3' = Guarded("download_file", key, outcome, "data")
       /\ UNCHANGED bucket

\* S3 answers a DELETE of a missing key like any other.
DeleteFile(key) ==
    \E outcome \in DeleteObject :
       /\ s3' = Guarded("delete_file", key, outcome, "True")
       /\ bucket' = IF outcome = BackendOk THEN bucket \ {key} ELSE bucket

\* if error_code == "NoSuchKey": return False, before _handle_client_error.
FileExists(key) ==
    \E outcome \in HeadObject(key) :
       /\ s3' = IF outcome = ClientError("NoSuchKey")
                THEN [op |-> "file_exists", key |-> key, error |-> outcome,
                      raised |-> None, returned |-> "False"]
                ELSE Guarded("file_exists", key, outcome, "True")
       /\ UNCHANGED bucket

GetFileMetadata(key) ==
    \E outcome \in HeadObject(key) :
       /\ s3' = Guarded("get_file_metadata", key, outcome, "metadata")
       /\ UNCHANGED bucket

\* An operation outside method_map raises ValueError inside the try block.
GeneratePresignedUrl(key, operation) ==
    \E outcome \in IF operation \in {"get", "put", "delete"}
                    THEN {BackendOk} \cup BackendFaults
                    ELSE {Unexpected("ValueError")} :
       /\ s3' = Guarded("generate_presigned_url", key, outcome, "url")
       /\ UNCHANGED bucket

ListFiles ==
    \E outcome \in ListObjectsV2 :
       /\ s3' = Guarded("list_files", None, outcome, "files")
       /\ UNCHANGED bucket

CopyFile(source, destination) ==
    \E outcome \in CopyObject(source) :
       /\ s3' = Guarded("copy_file", source, outcome, "True")
       /\ bucket' = IF outcome = BackendOk THEN bucket \cup {destination} ELSE bucket

GatewayInit ==
    /\ DocsBlank
    /\ ScanBlank
    /\ enabled = TRUE
    /\ scan_job = <<>>
    /\ upload_session = <<>>
    /\ scan_queue = <<>>
    /\ task = [w \in Workers |-> IdleTask]
    /\ ret = [w \in Workers |-> NoRet]
    /\ pushLog = <<>>
    /\ popLog = <<>>

GatewayFrame ==
    UNCHANGED <<jobVars, docVars, scanVars, apiVars, clientVars, resultVars,
                publisherVars, limitVars>>

GatewayNext ==
    \/ \E key \in ObjectKeys : UploadFile(key) /\ GatewayFrame
    \/ \E key \in ObjectKeys : DownloadFile(key) /\ GatewayFrame
    \/ \E key \in ObjectKeys : DeleteFile(key) /\ GatewayFrame
    \/ \E key \in ObjectKeys : FileExists(key) /\ GatewayFrame
    \/ \E key \in ObjectKeys : GetFileMetadata(key) /\ GatewayFrame
    \/ \E key \in ObjectKeys, operation \in {"get", "put", "delete", "head"} :
          GeneratePresignedUrl(key, operation) /\ GatewayFrame
    \/ ListFiles /\ GatewayFrame
    \/ \E source, destination \in ObjectKeys :
          CopyFile(source, destination) /\ GatewayFrame

SpecGateway == GatewayInit /\ [][GatewayNext]_vars

\* ------------------------------------------------------------------------
\* RedisClient.rate_limit_check: the sliding window of one key
\* ------------------------------------------------------------------------

\* Number of rate_limit_check calls a behaviour may make.
MaxChecks == 4
\* The last tick of the rate limiter's clock.
MaxTime == 3

\* The limit and the window_seconds the callers pass.
Limits == {2}
Windows == {2}

\* ZREMRANGEBYSCORE key 0 max: the members with a score above max stay.
ZRemRangeByScore(zset, max) ==
    [m \in {x \in DOMAIN zset : zset[x] > max} |-> zset[m]]

\* ZCARD key
ZCard(zset) == Cardinality(DOMAIN zset)

\* ZADD key score member: a member already in the set only gets the score.
ZAdd(zset, member, score) ==
    [m \in DOMAIN zset \cup {member} |-> IF m = member THEN score ELSE zset[m]]

\* current_time = utcnow(); one pipeline: zremrangebyscore(key, 0,
\* window_start), zcard(key), zadd(key, {str(timestamp): timestamp}),
\* expire(key, window_seconds); return results[1] < limit. The member is
\* the timestamp itself. An exception of the pipeline is logged and the
\* call returns True.
RateLimitCheck(limit, window_seconds) ==
    /\ Len(rate_log) < MaxChecks
    /\ LET current_time == rate_clock
           window_start == current_time - window_seconds
           kept == ZRemRangeByScore(rate_limit.zset, window_start)
           current_count == ZCard(kept)
       IN \/ /\ rate_limit' = [zset |-> ZAdd(kept, current_time, current_time),
                                ttl |-> window_seconds]
             /\ rate_log' = Append(rate_log,
                    [at |-> current_time, limit |-> limit, window |-> window_seconds,
                     allowed |-> current_count < limit, failed |-> FALSE])
          \/ /\ UNCHANGED rate_limit
             /\ rate_log' = Append(rate_log,
                    [at |-> current_time, limit |-> limit, window |-> window_seconds,
                     allowed |-> TRUE, failed |-> TRUE])
    /\ UNCHANGED rate_clock

\* One second passes; a key whose time-to-live runs out is gone.
RateTick ==
    /\ rate_clock < MaxTime
    /\ rate_clock' = rate_clock + 1
    /\ rate_limit' = IF rate_limit.ttl <= 1 THEN NoRateKey
                     ELSE [rate_limit EXCEPT !.ttl = @ - 1]
    /\ UNCHANGED rate_log

LimiterInit ==
    /\ DocsBlank
    /\ ScanBlank
    /\ enabled = TRUE
    /\ scan_job = <<>>
    /\ upload_session = <<>>
    /\ scan_queue = <<>>
    /\ task = [w \in Workers |-> IdleTask]
    /\ ret = [w \in Workers |-> NoRet]
    /\ pushLog = <<>>
    /\ popLog = <<>>

LimiterFrame ==
    UNCHANGED <<jobVars, docVars, scanVars, apiVars, clientVars, resultVars,
                publisherVars, gatewayVars>>

LimiterNext ==
    \/ \E limit \in Limits, window_seconds \in Windows :
          RateLimitCheck(limit, window_seconds) /\ LimiterFrame
    \/ RateTick /\ LimiterFrame

SpecLimiter == LimiterInit /\ [][LimiterNext]_vars

\* ------------------------------------------------------------------------
\* Job Coordinator properties
\* ------------------------------------------------------------------------

Count(q, x) == Cardinality({i \in 1..Len(q) : q[i] = x})

Reverse(q) == [i \in 1..Len(q) |-> q[Len(q) + 1 - i]]

\* C1: once a scan job record's status is completed or failed, no later
\* update_scan_job call changes the record's status.
C1_TerminalStatusKept ==
    [][\A w \in Workers :
          (/\ UpdateScanJobSetex(w)
           /\ task[w].id \in DOMAIN scan_job
           /\ scan_job[task[w].id].status \in TerminalStatuses)
          => scan_job'[task[w].id].status = scan_job[task[w].id].status]_vars

\* C6: update_scan_job and update_upload_session called for an id with no
\* live record return False in that same step and leave the store without a
\* record for the id.
C6_UpdateOfAbsentFails ==
    [][/\ \A w \in Workers, id \in ScanIds, st \in ScanStatuses \cup {None} :
            (id \notin DOMAIN scan_job /\ UpdateScanJobGet(w, id, Args(st, None, None)))
            => /\ ret'[w].op = "update_scan_job"
               /\ ret'[w].val = FALSE
               /\ task'[w].pc = "idle"
               /\ id \notin DOMAIN scan_job'
       /\ \A w \in Workers, id \in SessionIds, st \in SessionStatuses \cup {None} :
            (id \notin DOMAIN upload_session /\ UpdateUploadSessionGet(w, id, st))
            => /\ ret'[w].op = "update_upload_session"
               /\ ret'[w].val = FALSE
               /\ task'[w].pc = "idle"
               /\ id \notin DOMAIN upload_session']_vars

\* An update of an expired scan job and an update of a deleted upload
\* session have both returned False, and neither record is in the store.
C6_Witness ==
    /\ ret["w1"].op = "update_scan_job"
    /\ ret["w1"].note = "absent"
    /\ ret["w1"].val = FALSE
    /\ ret["w1"].id \in {pushLog[i] : i \in 1..Len(pushLog)}
    /\ ret["w1"].id \notin DOMAIN scan_job
    /\ ret["w2"].op = "update_upload_session"
    /\ ret["w2"].note = "absent"
    /\ ret["w2"].val = FALSE
    /\ ret["w2"].id \notin DOMAIN upload_session

\* C7: every id pushed on scan_queue is delivered to at most one
\* pop_scan_job call (deliveries plus entries still queued equal pushes),
\* and a pop returns None on a nil reply only while the queue is empty, so
\* that of two callers popping a queue of one id exactly one gets it.
C7_OneIdOneConsumer ==
    /\ [](\A id \in ScanIds :
             Count(popLog, id) + Count(scan_queue, id) = Count(pushLog, id))
    /\ [](\A w \in Workers :
             (ret[w].op = "pop_scan_job" /\ ret[w].val /= None)
             => Count(popLog, ret[w].val) >= 1)
    /\ [][\A w \in Workers :
             (ret'[w] /= ret[w] /\ ret'[w].op = "pop_scan_job" /\ ret'[w].note = "nil")
             => (scan_queue = <<>> /\ ret'[w].val = None)]_vars

\* One id was pushed, two callers popped: one got the id, the other None.
C7_Witness ==
    /\ Len(pushLog) = 1
    /\ scan_queue = <<>>
    /\ ret["w1"].op = "pop_scan_job"
    /\ ret["w1"].val = pushLog[1]
    /\ ret["w2"].op = "pop_scan_job"
    /\ ret["w2"].note = "nil"
    /\ ret["w2"].val = None

C9_PopNeverRaises ==
    \A w \in Workers :
        ret[w].op = "pop_scan_job"
        => /\ ~ret[w].raised
           /\ (ret[w].note \in {"nil", "exception"} => ret[w].val = None)

\* One pop has timed out on the empty queue, another hit a store failure.
C9_Witness ==
    /\ ret["w1"].op = "pop_scan_job"
    /\ ret["w1"].note = "nil"
    /\ ret["w2"].op = "pop_scan_job"
    /\ ret["w2"].note = "exception"
    /\ scan_queue = <<>>

\* The time-to-live a successful update that read `read` seconds from the
\* store may give a record that holds `held` seconds when it is rewritten.
KeepsTtl(read, held, written) ==
    /\ written = Max(read, MinTtlSeconds)
    /\ held = read
         => /\ written = Max(held, MinTtlSeconds)
            /\ held >= MinTtlSeconds => written = held
            /\ written <= Max(held, MinTtlSeconds)

\* C25: a successful update_scan_job or update_upload_session rewrites the
\* record with the time-to-live max(remaining, 60): the remaining seconds
\* are kept when they are at least 60, and the record never gets more than
\* max(remaining, 60).
C25_UpdateKeepsRemainingTtl ==
    [][\A w \in Workers :
          /\ (task[w].pc = "upd_setex" /\ task'[w].pc = "idle" /\ ret'[w].note = "ok")
                => KeepsTtl(task[w].ttl, RedisTtl(scan_job, task[w].id),
                            scan_job'[task[w].id].ttl)
          /\ (task[w].pc = "sess_setex" /\ task'[w].pc = "idle" /\ ret'[w].note = "ok")
                => KeepsTtl(task[w].ttl, RedisTtl(upload_session, task[w].id),
                            upload_session'[task[w].id].ttl)]_vars

\* An update of a scan job that had less than 60 seconds left has given it
\* 60, and an update of an upload session has kept a remaining time between
\* the floor and the time-to-live of a new session.
C25_Witness ==
    /\ ret["w1"].op = "update_scan_job" /\ ret["w1"].val = TRUE
    /\ "a" \in DOMAIN scan_job /\ scan_job["a"].ttl = MinTtlSeconds
    /\ ret["w2"].op = "update_upload_session" /\ ret["w2"].val = TRUE
    /\ "u" \in DOMAIN upload_session
    /\ upload_session["u"].ttl > MinTtlSeconds
    /\ upload_session["u"].ttl < UploadSessionTtlMinutes * 60

\* ------------------------------------------------------------------------
\* DocumentService properties
\* ------------------------------------------------------------------------

HasLocation(doc) == \E l \in storage_locations : l.document_id = doc

HasVersionOne(doc) == \E v \in versions : v.document_id = doc /\ v.version = 1

HasUploadAudit(doc) == BagIn(AuditRow(doc, "upload", "success"), audit_logs)

\* How many of the four records of an upload exist for doc.
UploadRecords(doc) ==
    Cardinality({k \in {"document", "location", "version", "audit"} :
        \/ k = "document" /\ doc \in DOMAIN documents
        \/ k = "location" /\ HasLocation(doc)
        \/ k = "version" /\ HasVersionOne(doc)
        \/ k = "audit" /\ HasUploadAudit(doc)})

\* C2: the Document, its primary StorageLocation, its version-1 snapshot
\* and the success AuditLog entry of an upload exist all four or not at all,
\* and after an upload whose commit failed none of them exists.
C2_UploadAtomic ==
    /\ \A doc \in 0..MaxCalls : UploadRecords(doc) \in {0, 4}
    /\ \A c \in Callers :
          (res[c].op = "upload" /\ ~res[c].ok) => UploadRecords(res[c].doc) = 0
    /\ \A c \in Callers :
          (call[c].op = "upload" /\ call[c].pc = "fail_audit")
          => UploadRecords(call[c].doc) = 0

\* An upload stored its object, its commit failed, and no record exists.
C2_Witness ==
    /\ res["c1"].op = "upload"
    /\ ~res["c1"].ok
    /\ res["c1"].orig = "DatabaseError"
    /\ res["c1"].doc \in DOMAIN storage_objects
    /\ UploadRecords(res["c1"].doc) = 0

\* C3: when the storage put raises in upload_document, no Document,
\* StorageLocation or DocumentVersion record is created and the caller
\* receives the storage error itself.
C3_StorageErrorSurfaces ==
    \A c \in Callers :
        (res[c].op = "upload" /\ res[c].orig = "StorageError")
        => /\ res[c].doc \notin DOMAIN documents
           /\ ~HasLocation(res[c].doc)
           /\ ~HasVersionOne(res[c].doc)
           /\ res[c].err = "StorageError"

\* C4: when an operation fails and the write of its failure AuditLog entry
\* fails too, the caller still receives the operation's own error.
C4_OriginalErrorKept ==
    \A c \in Callers :
        (res[c].op \in {"upload", "get", "delete", "update"} /\ ~res[c].ok)
        => res[c].err = res[c].orig

\* C10: delete_document on a document that is already deleted does not
\* return success and raises ValueError (when the database does not fail
\* during the call); a successful delete sets status to deleted and moves
\* updated_at, and removes no stored object and no StorageLocation,
\* DocumentVersion or AuditLog row.
C10_DeleteIsSoft ==
    /\ [](\A c \in Callers :
            (res[c].op = "delete" /\ res[c].pre = DeletedStatus)
            => /\ ~res[c].ok
               /\ (~res[c].fault => res[c].err = "ValueError"))
    /\ [][\A c \in Callers :
            (call[c].op = "delete" /\ res'[c].op = "delete" /\ res'[c].ok)
            => /\ storage_objects' = storage_objects
               /\ storage_locations' = storage_locations
               /\ versions' = versions
               /\ audit_logs \sqsubseteq audit_logs'
               /\ DOMAIN documents' = DOMAIN documents
               /\ documents'[call[c].doc].status = DeletedStatus
               /\ documents'[call[c].doc].updated_at /= documents[call[c].doc].updated_at
               /\ documents' = [documents EXCEPT
                     ![call[c].doc].status = DeletedStatus,
                     ![call[c].doc].updated_at = documents'[call[c].doc].updated_at]]_vars

\* A document was deleted, and a second delete of it raised ValueError.
C10_Witness ==
    /\ res["c1"].op = "delete"
    /\ res["c1"].pre = DeletedStatus
    /\ res["c1"].err = "ValueError"
    /\ res["c1"].doc \in DOMAIN storage_objects
    /\ HasLocation(res["c1"].doc)
    /\ BagIn(AuditRow(res["c1"].doc, "delete", "success"), audit_logs)

\* ------------------------------------------------------------------------
\* Scanner properties
\* ------------------------------------------------------------------------

\* The reply without what ends it on the wire (NUL, line feed, blanks).
RECURSIVE Chomp(_)
Chomp(s) ==
    IF s /= <<>> /\ s[Len(s)] \in Whitespace \cup {"NUL"}
    THEN Chomp(SubSeq(s, 1, Len(s) - 1))
    ELSE s

\* '...: OK'
OkForm(text) == EndsWith(Chomp(text), <<":", " ">> \o OK)

\* '...: <NAME> FOUND' with a name of at least one character
FoundForm(text) ==
    /\ EndsWith(Chomp(text), <<" ">> \o FOUND)
    /\ \E i \in 1..(Len(Chomp(text)) - Len(FOUND) - 3) :
          Chomp(text)[i] = ":" /\ Chomp(text)[i + 1] = " "

Ambiguous(behaviour) ==
    \/ behaviour.kind \in {"refused", "timeout", "undecodable", "close_failed"}
    \/ /\ behaviour.kind = "reply"
       /\ ~ OkForm(behaviour.text)
       /\ ~ FoundForm(behaviour.text)

\* C5: a scan whose reply is neither of the form '...: OK' nor of the form
\* '...: <NAME> FOUND', or whose connection failed or timed out, is reported
\* as an error by _scan_with_clamav and returned with result "error" by
\* scan_bytes; it is never classified clean.
C5_AmbiguousNeverClean ==
    \A w \in Workers :
       /\ (scan[w].stage \in {"record", "record_ttl", "record_setex", "return"}
              /\ Ambiguous(scan[w].behaviour))
            => scan[w].outcome.error
       /\ (scanned[w].status /= None /\ scanned[w].behaviour.kind /= None
              /\ Ambiguous(scanned[w].behaviour))
            => scanned[w].result = "error"

CompletedResults == {"clean", "infected", "suspicious"}

\* The pairing of status and result the state machine of a scan allows.
StatusAndResultAgree(r) ==
    /\ r.result = "error" => r.status = "failed"
    /\ r.status = "completed" => r.result \in CompletedResults

\* C11: in every ScanResult scan_bytes returns and in every scan job record,
\* result "error" occurs only with status "failed", and status "completed"
\* only with result clean, infected or suspicious.
C11_StatusMatchesResult ==
    /\ \A w \in Workers :
          scanned[w].status /= None => StatusAndResultAgree(scanned[w])
    /\ \A id \in DOMAIN scan_job : StatusAndResultAgree(scan_job[id])

\* The protocol client reported an error without raising.
ReportedError(behaviour) ==
    /\ behaviour \in Behaviours
    /\ ScanWithClamav(behaviour).error

\* C12: a scan whose protocol client reports an error without raising
\* (timeout, connection failure, unrecognised reply) is returned with status
\* completed and result error, and the update that records it writes status
\* completed; status failed (with result error and scanner_version "error",
\* and a record update writing status failed with an error message) is
\* returned only when an exception left the scan steps.
C12_ErrorIsCompletedUnlessRaised ==
    /\ [](\A w \in Workers :
            /\ (scanned[w].status /= None /\ ReportedError(scanned[w].behaviour))
                 => /\ scanned[w].status = "completed"
                    /\ scanned[w].result = "error"
            /\ scanned[w].status = "failed"
                 => /\ scanned[w].behaviour = Escapes
                    /\ scanned[w].result = "error"
                    /\ scanned[w].scanner_version = "error")
    /\ [][\A w \in Workers :
            /\ (scan[w].stage = "record_setex" /\ ReportedError(scan[w].behaviour)
                  /\ scan'[w].stage = "return" /\ ret'[w].val = TRUE)
                 => /\ scan_job'[scan[w].id].status = "completed"
                    /\ scan_job'[scan[w].id].result = "error"
            /\ (scan[w].stage = "fail_setex"
                  /\ scan'[w].stage = "return_failed" /\ ret'[w].val = TRUE)
                 => /\ scan[w].behaviour = Escapes
                    /\ scan_job'[scan[w].id].status = "failed"
                    /\ scan_job'[scan[w].id].error_message /= None]_vars

\* A scan that timed out has been returned as completed with result error,
\* and its job record says the same.
C12_Witness ==
    /\ scanned["w1"].behaviour.kind = "timeout"
    /\ scanned["w1"].status = "completed"
    /\ scanned["w1"].result = "error"
    /\ scanned["w1"].scan_id \in DOMAIN scan_job
    /\ scan_job[scanned["w1"].scan_id].status = "completed"
    /\ scan_job[scanned["w1"].scan_id].result = "error"

\* ------------------------------------------------------------------------
\* Scan request properties
\* ------------------------------------------------------------------------

\* The request of caller c has been answered, for a live document of the
\* caller's tenant that had no primary storage location.
AnsweredWithoutLocation(c) ==
    /\ route[c].pc = "idle"
    /\ route[c].http /= 0
    /\ route[c].doc \in DOMAIN documents
    /\ res[c].pre = "active"
    /\ res[c].orig = "ValueError"
    /\ ~ route[c].primary

\* C13: a scan request for a document with no primary storage location is
\* answered with a ScanResult of status failed and result error, and
\* without a call to the scanner.
C13_NoLocationGivesFailedResult ==
    \A c \in Callers :
       AnsweredWithoutLocation(c)
         => /\ route[c].scan_result.status = "failed"
            /\ route[c].scan_result.result = "error"
            /\ ~ route[c].scanned

\* C14: once scan_bytes has returned a ScanResult with a terminal status,
\* the metadata store holds a scan_results row for its scan id, and
\* get_scan_result for that document and scan id by the document's owner
\* returns it.
C14_ScanResultStored ==
    /\ \A w \in Workers :
          scanned[w].status \in TerminalStatuses
            => \E r \in scan_results : r.scan_id = scanned[w].scan_id
    /\ \A c \in Callers :
          (res[c].op = "get_scan_result" /\ route[c].http = 200
             /\ res[c].doc = route[c].doc /\ ~ res[c].fault)
            => res[c].ok

\* ------------------------------------------------------------------------
\* Protocol client properties
\* ------------------------------------------------------------------------

\* The unsigned number a 4-byte big-endian field stands for.
FromBytes4(b) == ((b[1] * 256 + b[2]) * 256 + b[3]) * 256 + b[4]

\* Number of data frames in what was written after the command, when it is
\* pairs of length and data followed by one more length.
FrameCount(sent) == (Len(sent) - 2) \div 2

\* sent is the command, then frames of a length field N with
\* 1 <= N <= chunk_size followed by exactly N payload bytes, the frames
\* covering positions 0..size-1 of the payload in order without gap or
\* overlap, then one zero length field.
WellFramed(sent, size) ==
    /\ Len(sent) >= 2
    /\ Len(sent) = 2 * FrameCount(sent) + 2
    /\ sent[1] = Written("command", "zINSTREAM NUL", 0, 0)
    /\ \A i \in 1..FrameCount(sent) :
          /\ sent[2 * i].kind = "length"
          /\ sent[2 * i + 1].kind = "data"
          /\ FromBytes4(sent[2 * i].bytes) = sent[2 * i + 1].to - sent[2 * i + 1].from
          /\ FromBytes4(sent[2 * i].bytes) \in 1..ChunkSize
          /\ sent[2 * i + 1].from = IF i = 1 THEN 0 ELSE sent[2 * i - 1].to
    /\ IF FrameCount(sent) = 0 THEN size = 0
       ELSE sent[Len(sent) - 1].to = size
    /\ sent[Len(sent)].kind = "length"
    /\ FromBytes4(sent[Len(sent)].bytes) = 0

\* C15: for every payload, the empty one included, what _scan_with_clamav
\* has written when it starts to read the reply is the zINSTREAM command,
\* frames of a 4-byte big-endian length N (1 <= N <= 8192) with exactly N
\* payload bytes each, which put together give the payload, and one
\* zero-length frame.
C15_FramesCarryPayload ==
    (client.op = "scan" /\ client.pc = "read")
      => WellFramed(client.sent, client.size)

\* A payload of two full chunks and one byte has been sent in three frames.
C15_Witness ==
    /\ client.op = "scan"
    /\ client.pc = "read"
    /\ client.size = 2 * ChunkSize + 1
    /\ FrameCount(client.sent) = 3

\* C18: when a call of _scan_with_clamav or health_check has returned, the
\* connection it opened and the connection its _get_version opened have
\* been closed, whether the call succeeded or failed on a write, on the
\* read deadline or on the reply.
C18_ConnectionsClosed ==
    client.pc = "idle" => (client.conn /= "open" /\ client.vconn /= "open")

\* A scan whose read ran into its deadline has returned, with its
\* connection closed.
C18_Witness ==
    /\ client.pc = "idle"
    /\ client.op = "scan"
    /\ client.raised = "TimeoutError"
    /\ client.conn = "closed"

\* C19: every call of _scan_with_clamav returns, whatever the daemon does
\* (it may accept the connection and then stop reading, never reply, or
\* never complete the close), so scan_bytes never waits forever.
C19_ScanAlwaysReturns ==
    (client.op = "scan" /\ client.pc /= "idle") ~> (client.pc = "idle")

\* The signature name of a reply '...: <NAME> FOUND': the text between the
\* first colon and ' FOUND', without the blanks around it.
SignatureName(text) ==
    LET reply == Chomp(text)
        colon == CHOOSE k \in 1..Len(reply) :
                    reply[k] = ":" /\ \A j \in 1..(k - 1) : reply[j] /= ":"
    IN  Strip(SubSeq(reply, colon + 1, Len(reply) - Len(FOUND) - 1))

\* C16: every reply that contains the FOUND token makes scan_bytes return
\* the result infected, and a reply '...: <NAME> FOUND', with or without a
\* NUL at its end, gives exactly one threat whose name is <NAME>.
C16_FoundGivesNamedThreat ==
    \A w \in Workers :
       (scanned[w].status = "completed" /\ scanned[w].behaviour.kind = "reply"
           /\ Contains(scanned[w].behaviour.text, FOUND))
         => /\ scanned[w].result = "infected"
            /\ FoundForm(scanned[w].behaviour.text)
                 => scanned[w].threats =
                      <<SignatureName(scanned[w].behaviour.text)>>

\* The reply 'stream: OK' as it arrives after a zINSTREAM command.
StreamOkNul == <<"s", ":", " ">> \o OK \o <<"NUL">>

\* C17: the NUL-terminated reply 'stream: OK' is classified clean:
\* _scan_with_clamav reports infected = false and error = false for it.
C17_NulTerminatedOkIsClean ==
    \A w \in Workers :
       (scan[w].stage \in {"record", "record_ttl", "record_setex", "return"}
           /\ scan[w].behaviour.kind = "reply"
           /\ scan[w].behaviour.text = StreamOkNul)
         => (~ scan[w].outcome.infected /\ ~ scan[w].outcome.error)

\* ------------------------------------------------------------------------
\* Upload and event publishing
\* ------------------------------------------------------------------------

\* C20: when the publish of the uploaded event fails (it returns False or
\* raises, so the broker holds no new event), the step that follows the
\* commit still returns the upload as COMPLETED and leaves the Document,
\* StorageLocation, DocumentVersion and AuditLog rows as they were committed.
C20_PublishFailureKeepsUpload ==
    [][\A c \in Callers :
          (call[c].pc = "upload_after" /\ call'[c] /= call[c] /\ events' = events)
            => /\ call'[c].pc = "idle"
               /\ res'[c].op = "upload" /\ res'[c].doc = call[c].doc
               /\ res'[c].ok /\ res'[c].err = None
               /\ tables' = tables
               /\ call[c].doc \in DOMAIN documents'
               /\ \E l \in storage_locations' :
                     l.document_id = call[c].doc /\ l.is_primary
               /\ NewVersion(call[c].doc, call[c].data) \in versions'
               /\ BagIn(AuditRow(call[c].doc, "upload", "success"), audit_logs')]_vars

\* An upload has returned COMPLETED, its rows are in the tables, and no
\* uploaded event for it reached the broker.
C20_Witness ==
    \E c \in Callers :
       /\ res[c].op = "upload" /\ res[c].ok
       /\ call[c].pc = "idle"
       /\ res[c].doc \in DOMAIN documents
       /\ BagIn(AuditRow(res[c].doc, "upload", "success"), audit_logs)
       /\ ~ BagIn(EventRow("uploaded", res[c].doc), events)

\* ------------------------------------------------------------------------
\* Upload properties
\* ------------------------------------------------------------------------

\* The Document row and the version-1 snapshot of d carry the size and the
\* sha256 of the bytes stored for d.
RecordsMatchBytes(d) ==
    /\ d \in DOMAIN storage_objects
    /\ documents[d].checksum = Sha256(storage_objects[d])
    /\ documents[d].size_bytes = Len(storage_objects[d])
    /\ \E v \in versions :
          /\ v.document_id = d /\ v.version = 1
          /\ v.checksum = documents[d].checksum
          /\ v.size_bytes = documents[d].size_bytes

\* C26: uploads of the same bytes get equal checksums (the sha256 of the
\* bytes received) and different document ids, and in each upload the
\* checksum and the size of the response are those of the Document row and
\* of its version-1 snapshot.
C26_ChecksumOfBytesReceived ==
    /\ [](/\ \A d \in DOMAIN documents : RecordsMatchBytes(d)
          /\ \A d1, d2 \in DOMAIN documents :
                storage_objects[d1] = storage_objects[d2]
                  => documents[d1].checksum = documents[d2].checksum
          /\ \A c \in Callers :
                (res[c].op = "upload" /\ res[c].ok)
                  => /\ res[c].response.given
                     /\ res[c].doc \in DOMAIN documents
                     /\ res[c].response.checksum = documents[res[c].doc].checksum
                     /\ res[c].response.size_bytes = documents[res[c].doc].size_bytes)
    /\ [][\A c \in Callers :
            (call[c].pc = "idle" /\ call'[c].op = "upload")
              => call'[c].doc \notin DOMAIN documents \cup DOMAIN storage_objects]_vars

\* Two uploads of the same two bytes have returned: two documents with equal
\* checksums, the second response carrying that checksum and the size 2.
C26_Witness ==
    \E c \in Callers, d \in DOMAIN documents :
       /\ res[c].op = "upload" /\ res[c].ok
       /\ d /= res[c].doc
       /\ storage_objects[d] = <<1, 2>>
       /\ storage_objects[res[c].doc] = <<1, 2>>
       /\ documents[d].checksum = res[c].response.checksum
       /\ res[c].response.size_bytes = Len(<<1, 2>>)

\* upload_document passes the point after its commit with session s.
CleansUp(c, s) ==
    call[c].pc = "upload_after" /\ call[c].sess = s /\ call'[c].pc /= "upload_after"

\* C27: upload_document deletes the upload session record if and only if a
\* session id was supplied and the metadata transaction committed: a live
\* session record is gone after a step exactly when that step is the one
\* that follows the commit of an upload given that session id, so that a
\* failed put or commit leaves the record in place.
C27_SessionDeletedIffCommitted ==
    [][\A s \in SessionIds :
          s \in DOMAIN upload_session
            => ((s \notin DOMAIN upload_session')
                  <=> \E c \in Callers : CleansUp(c, s))]_vars

\* ------------------------------------------------------------------------
\* Access control properties
\* ------------------------------------------------------------------------

\* The finished call of c was made on a document that existed, was not
\* deleted and belonged to the caller's tenant, and the database did not fail.
OnOwnTenantDocument(c) ==
    /\ res[c].op \in {"get", "update", "delete"}
    /\ res[c].doc \in DOMAIN documents
    /\ res[c].pre = "active"
    /\ documents[res[c].doc].tenant = res[c].by.tenant
    /\ ~ res[c].fault

MayAccess(c) ==
    documents[res[c].doc].owner = res[c].by.user \/ res[c].by.admin

\* C22: get_document, update_document and delete_document on an existing,
\* non-deleted document of the caller's tenant succeed when the caller is
\* the owner or holds doc.admin, and otherwise raise PermissionError and
\* leave the documents as they were.
C22_OwnerOrAdminMayAccess ==
    /\ [](\A c \in Callers :
            OnOwnTenantDocument(c)
              => IF MayAccess(c) THEN res[c].ok
                 ELSE ~ res[c].ok /\ res[c].err = "PermissionError")
    /\ [][\A c \in Callers :
            (call[c].err = "PermissionError" \/ call'[c].err = "PermissionError")
              => documents' = documents]_vars

\* ------------------------------------------------------------------------
\* Update properties
\* ------------------------------------------------------------------------

\* The document a step of update_document by caller c is about.
UpdateTarget(c) == IF call[c].op = "update" THEN call[c].doc ELSE call'[c].doc

\* C23: a step of update_document changes, of the target document, only the
\* metadata fields (title here), status and updated_at: every other field of
\* the row, its StorageLocations and DocumentVersions, and every other
\* document stay as they were.
C23_UpdateChangesMetadataOnly ==
    [][\A c \in Callers :
          (call[c].op = "update" \/ call'[c].op = "update")
            => /\ DOMAIN documents' = DOMAIN documents
               /\ storage_locations' = storage_locations
               /\ versions' = versions
               /\ \A d \in DOMAIN documents :
                     IF d = UpdateTarget(c)
                     THEN documents'[d] =
                            [documents[d] EXCEPT !.title = documents'[d].title,
                                                 !.status = documents'[d].status,
                                                 !.updated_at = documents'[d].updated_at]
                     ELSE documents'[d] = documents[d]]_vars

\* An update has returned with the new title while another document exists.
C23_Witness ==
    \E c \in Callers :
       /\ res[c].op = "update" /\ res[c].ok
       /\ documents[res[c].doc].title = "new"
       /\ documents[res[c].doc].updated_at > documents[res[c].doc].created_at
       /\ \E d \in DOMAIN documents : d /= res[c].doc

\* C24: every update_document call that succeeds while the publisher is
\* connected (connection and channel open when the call commits) publishes
\* one updated event for the document.
C24_UpdatePublishesUpdated ==
    [][\A c \in Callers :
          (call[c].pc = "update_commit" /\ call'[c].pc = "update_get"
              /\ CanPublish(publisher) /\ publisher.topology = "bound")
            => CopiesIn(EventRow("updated", call[c].doc), events')
                 = CopiesIn(EventRow("updated", call[c].doc), events) + 1]_vars

\* ------------------------------------------------------------------------
\* Event Publisher properties
\* ------------------------------------------------------------------------

\* C21: after a connection was opened and _on_connection_closed has run,
\* the next publish_event call re-establishes the connection and the channel
\* (the publisher can publish again when the call ends), without any caller
\* invoking connect().
C21_PublishReconnectsAfterDrop ==
    [][(Len(published') > Len(published) /\ publisher.dropped
           /\ publisher.connection = "open")
          => CanPublish(publisher')]_vars

\* C32: publish_event returns true only when the connection and the channel
\* are open and the exchange declaration and the queue binding have
\* completed: no publish issued before _on_queue_bind has run returns true.
C32_TrueOnlyWhenBound ==
    \A i \in DOMAIN published :
        published[i].returned => published[i].bound

\* ------------------------------------------------------------------------
\* Storage Gateway properties
\* ------------------------------------------------------------------------

\* The exception class that stands for each kind of the failure taxonomy.
KindClass ==
    [NotFound |-> "FileNotFoundError", PermissionDenied |-> "StoragePermissionError",
     QuotaExceeded |-> "StorageQuotaError",
     ConnectionUnavailable |-> "StorageConnectionError", Generic |-> "StorageError"]

\* The kind the taxonomy gives to a failure of the backend.
KindOf(error) ==
    CASE error.kind = "client" /\ error.code = "NoSuchKey"     -> "NotFound"
      [] error.kind = "client" /\ error.code = "AccessDenied"  -> "PermissionDenied"
      [] error.kind = "client" /\ error.code = "QuotaExceeded" -> "QuotaExceeded"
      [] error.kind = "client" /\ error.code = "NoSuchBucket"  -> "ConnectionUnavailable"
      [] error.kind = "client" /\ error.code = "BucketNotFound" -> "ConnectionUnavailable"
      [] OTHER -> "Generic"

ActingTenant(c) ==
    IF call[c].pc /= "idle" THEN call[c].tenant
    ELSE IF call'[c].pc /= "idle" THEN call'[c].tenant
    ELSE res'[c].by.tenant

\* C29: get_document, update_document, delete_document and get_scan_result
\* called for a document of another tenant than the caller's return no data
\* and fail with not-found (ValueError), never with permission-denied,
\* whatever the caller's user id and scopes (when the database does not fail
\* during the call); list_documents lists documents of the caller's tenant
\* only; and no step taken for a caller changes a document of another
\* tenant, its storage location or its versions.
C29_OtherTenantNotFound ==
    /\ [](\A c \in Callers :
            /\ (/\ res[c].op \in {"get", "update", "delete", "get_scan_result"}
                /\ res[c].doc \in DOMAIN documents
                /\ documents[res[c].doc].tenant /= res[c].by.tenant)
                 => /\ ~res[c].ok
                    /\ ~res[c].response.given
                    /\ res[c].err /= "PermissionError"
                    /\ (~res[c].fault => res[c].err = "ValueError")
            /\ res[c].op = "list"
                 => \A d \in res[c].listed : documents[d].tenant = res[c].by.tenant)
    /\ [][\A c \in Callers :
            (call'[c] /= call[c] \/ res'[c] /= res[c])
              => \A d \in DOMAIN documents :
                    documents[d].tenant /= ActingTenant(c)
                      => /\ d \in DOMAIN documents'
                         /\ documents'[d] = documents[d]
                         /\ {l \in storage_locations' : l.document_id = d}
                              = {l \in storage_locations : l.document_id = d}
                         /\ {v \in versions' : v.document_id = d}
                              = {v \in versions : v.document_id = d}]_vars

\* A caller of tenant t2 with the owner's user id and the doc.admin scope
\* has asked for document 1 of tenant t1 and got ValueError.
C29_Witness ==
    \E c \in Callers :
       /\ res[c].op = "get"
       /\ res[c].doc = 1
       /\ res[c].by = [user |-> "alice", tenant |-> "t2", admin |-> TRUE]
       /\ documents[1].tenant = "t1"
       /\ ~res[c].ok
       /\ res[c].err = "ValueError"

\* ------------------------------------------------------------------------
\* Rate limiter properties
\* ------------------------------------------------------------------------

\* The calls up to the i-th that Redis answered with allowed and that
\* arrived less than the i-th call's window before it.
AllowedInWindow(i) ==
    {j \in 1..i :
        /\ rate_log[j].allowed /\ ~rate_log[j].failed
        /\ rate_log[j].at > rate_log[i].at - rate_log[i].window}

\* C30: of the calls of rate_limit_check that arrive within one window, at
\* most limit are allowed, also when calls arrive at the same instant (the
\* calls Redis fails to answer are left out of the count).
C30_AtMostLimitPerWindow ==
    \A i \in DOMAIN rate_log :
        Cardinality(AllowedInWindow(i)) <= rate_log[i].limit

\* ------------------------------------------------------------------------
\* Disabled scanning
\* ------------------------------------------------------------------------

\* What scan_bytes returns when scanning is disabled.
DisabledResult ==
    [NoScanResult EXCEPT !.scan_id = "uuid", !.status = "completed",
                         !.result = "clean", !.scanner_version = "disabled"]

\* C31: with virus scanning disabled every scan_bytes call returns status
\* completed, result clean, scanner_version "disabled", duration 0 and no
\* threats, and no scan job record is created, nothing is pushed on
\* scan_queue and no call goes on to the scanner.
C31_DisabledScanIsInert ==
    ~ enabled =>
       /\ scan_job = <<>>
       /\ scan_queue = <<>>
       /\ pushLog = <<>>
       /\ \A w \in Workers :
             /\ scan[w] = IdleScan
             /\ task[w].pc = "idle"
             /\ scanned[w] /= NoScanResult
                  => /\ scanned[w].status = "completed"
                     /\ scanned[w].result = "clean"
                     /\ scanned[w].scanner_version = "disabled"
                     /\ scanned[w].duration_ms = 0
                     /\ scanned[w].threats = <<>>

\* scan_bytes has returned with scanning disabled.
C31_Witness ==
    /\ ~ enabled
    /\ \E w \in Workers : scanned[w] = DisabledResult

\* ------------------------------------------------------------------------
\* Updates racing with deletion and expiry
\* ------------------------------------------------------------------------

\* C33: whatever the interleaving of update_scan_job or
\* update_upload_session with a delete or the expiry of the same record, a
\* record that is gone is not in the store again unless a create call wrote
\* it: the write of an update does not bring an absent record back.
C33_UpdateDoesNotResurrect ==
    [][\A w \in Workers :
          /\ (task[w].pc = "upd_setex" /\ task[w].id \notin DOMAIN scan_job)
                => task[w].id \notin DOMAIN scan_job'
          /\ (task[w].pc = "sess_setex" /\ task[w].id \notin DOMAIN upload_session)
                => task[w].id \notin DOMAIN upload_session']_vars

\* ------------------------------------------------------------------------
\* Concurrent delete and update
\* ------------------------------------------------------------------------

\* C34: of the delete_document calls for one document, one after the other
\* or at the same time, at most one writes a success audit entry with
\* action delete and at most one deleted event is published, and of two
\* finished calls at most one has returned success, the other failing with
\* not-found (when the database does not fail during the call).
C34_OneDeleteSucceeds ==
    \A d \in DOMAIN documents :
        /\ CopiesIn(AuditRow(d, "delete", "success"), audit_logs) <= 1
        /\ CopiesIn(EventRow("deleted", d), events) <= 1
        /\ \A c1, c2 \in Callers :
              (/\ c1 /= c2
               /\ res[c1].op = "delete" /\ res[c1].doc = d /\ res[c1].ok
               /\ res[c2].op = "delete" /\ res[c2].doc = d)
                 => /\ ~res[c2].ok
                    /\ ~res[c2].fault => res[c2].err = "ValueError"

\* C35: once delete_document has committed for a document, no step of an
\* update_document call, also of one that read the document before the
\* delete committed, changes a field of the document, no update of it
\* returns success afterwards, and its status stays deleted.
C35_DeletedStaysUntouched ==
    [][\A d \in DOMAIN documents :
          documents[d].status = DeletedStatus
            => /\ documents'[d].status = DeletedStatus
               /\ \A c \in Callers :
                     call[c].op = "update" /\ call[c].doc = d
                       => /\ documents'[d] = documents[d]
                          /\ ~(res'[c].op = "update" /\ res'[c].ok)]_vars

\* ------------------------------------------------------------------------
\* The queue and the job records
\* ------------------------------------------------------------------------

\* C36: each id in scan_queue has no job record or has a job record whose
\* status is pending.
C36_QueuedJobsArePending ==
    \A i \in 1..Len(scan_queue) :
        scan_queue[i] \in DOMAIN scan_job
          => scan_job[scan_queue[i]].status = "pending"

\* C37: when create_scan_job returns True its record has been written and
\* its id has been pushed on scan_queue exactly once; when it returns False
\* neither a record nor a queue entry for the id has been added.
C37_CreateIsAllOrNothing ==
    [][\A w \in Workers :
          (/\ ret'[w].op = "create_scan_job"
           /\ task[w].pc = "create_lpush" \/ ret'[w] /= ret[w])
            => IF ret'[w].val = TRUE
               THEN /\ ret'[w].id \in DOMAIN scan_job'
                    /\ Count(pushLog', ret'[w].id) = 1
               ELSE /\ ret'[w].id \notin DOMAIN scan_job'
                    /\ Count(pushLog', ret'[w].id) = 0]_vars

\* ------------------------------------------------------------------------
\* An update that raises
\* ------------------------------------------------------------------------

\* C38: when update_document raises to its caller, the title (with it the
\* description, tags and attributes) and updated_at of the document are
\* what they were when the call was made, and the call has written no
\* success audit entry with action update.
C38_RaisedUpdateChangedNothing ==
    [][\A c \in Callers :
          (/\ call[c].op = "update"
           /\ call[c].pc /= "idle"
           /\ call'[c].pc = "idle"
           /\ ~res'[c].ok
           /\ call[c].doc \in DOMAIN documents)
            => /\ documents'[call[c].doc].title = call[c].seen.title
               /\ documents'[call[c].doc].updated_at = call[c].seen.updated_at
               /\ CopiesIn(AuditRow(call[c].doc, "update", "success"), audit_logs')
                     = call[c].seen.updates]_vars

\* ------------------------------------------------------------------------
\* Reading an upload back
\* ------------------------------------------------------------------------

\* C39: a get_document by the owner of an uploaded document, whatever the
\* payload was, the empty one included, succeeds unless the database
\* fails, and the size_bytes and checksum it reads are those of the bytes
\* uploaded, which the upload response carried.
C39_UploadReadsBack ==
    \A c \in Callers :
        (/\ res[c].op = "get"
         /\ res[c].doc \in DOMAIN documents
         /\ res[c].by.user = documents[res[c].doc].owner
         /\ res[c].by.tenant = documents[res[c].doc].tenant
         /\ ~res[c].fault)
          => /\ res[c].ok
             /\ documents[res[c].doc].size_bytes
                   = UploadResponse(storage_objects[res[c].doc]).size_bytes
             /\ documents[res[c].doc].checksum
                   = UploadResponse(storage_objects[res[c].doc]).checksum

============================================================================
